---- MODULE Spec2Model ----
(***************************************************************************)
(* A model of the itsdangerous signing stack: the byte/text codec          *)
(* (encoding.ts), the Signer (signer.ts in its two revisions), the         *)
(* TimestampSigner and TimedSerializer (timed.ts), the Serializer          *)
(* (serializer.ts) and the URL-safe payload transform (url-safe.ts).       *)
(*                                                                         *)
(* Bytes are integers 0..255 and buffers are sequences of bytes.  Text is  *)
(* a sequence of code points.  A StringBuffer is a record [t, v] with      *)
(* t = "string" (v: code points) or t = "bytes" (v: bytes).                *)
(***************************************************************************)
EXTENDS Integers, Sequences, FiniteSets, TLC

(***************************************************************************)
(* Bounds of the model.                                                    *)
(***************************************************************************)
MaxClock == 3
MaxAgeBound == 2

(***************************************************************************)
(* Text literals of the program, as ASCII codes.                           *)
(***************************************************************************)
Dot == 46
txtSigner == <<115, 105, 103, 110, 101, 114>>
txtDefaultSignerSalt ==
  <<105, 116, 115, 100, 97, 110, 103, 101, 114, 111, 117, 115, 46, 83, 105, 103, 110, 101, 114>>
txtDefaultSerializerSalt == <<105, 116, 115, 100, 97, 110, 103, 101, 114, 111, 117, 115>>

Buf(b) == [t |-> "bytes", v |-> b]
Str(s) == [t |-> "string", v |-> s]

Last(s) == s[Len(s)]
Reverse(s) == [i \in 1..Len(s) |-> s[Len(s) + 1 - i]]
Range(s) == {s[i] : i \in 1..Len(s)}

(***************************************************************************)
(* uint8array-extras / platform text codecs used by encoding.ts.           *)
(***************************************************************************)
\* The first place of s that holds a value of 128 or more, 0 when none does.
FirstNonAscii(s) ==
  LET First(places) ==
        IF places = {} THEN 0 ELSE CHOOSE k \in places : \A j \in places : k <= j
  IN First({k \in 1..Len(s) : s[k] >= 128})

\* TextEncoder: UTF-8 of code points below 0x800.  ASCII text is its own
\* encoding; every other code point becomes two bytes.
RECURSIVE Utf8Encode(_)
Utf8Encode(s) ==
  LET From(k) ==
        IF k = 0 THEN s
        ELSE SubSeq(s, 1, k - 1) \o <<192 + (s[k] \div 64), 128 + (s[k] % 64)>>
             \o Utf8Encode(SubSeq(s, k + 1, Len(s)))
  IN From(FirstNonAscii(s))

stringToUint8Array(s) == IF \A i \in 1..Len(s) : s[i] < 128 THEN s ELSE Utf8Encode(s)

\* TextDecoder: UTF-8 decoding, every ill-formed byte becoming U+FFFD.
RECURSIVE Utf8Decode(_)
Utf8Decode(b) ==
  LET From(k) ==
        IF k = 0 THEN b
        ELSE IF b[k] \in 194..223 /\ Len(b) >= k + 1 /\ b[k + 1] \in 128..191
             THEN SubSeq(b, 1, k - 1) \o <<(b[k] - 192) * 64 + (b[k + 1] - 128)>>
                  \o Utf8Decode(SubSeq(b, k + 2, Len(b)))
        ELSE SubSeq(b, 1, k - 1) \o <<65533>> \o Utf8Decode(SubSeq(b, k + 1, Len(b)))
  IN From(FirstNonAscii(b))

TextDecode(b) == IF \A i \in 1..Len(b) : b[i] < 128 THEN b ELSE Utf8Decode(b)

\* The base64 alphabet A-Z a-z 0-9, with the two URL-safe symbols - and _.
B64Chars ==
  [i \in 1..26 |-> 64 + i] \o [i \in 1..26 |-> 96 + i] \o [i \in 1..10 |-> 47 + i] \o <<45, 95>>

Sextet(n) == B64Chars[n + 1]

\* btoa followed by base64ToBase64Url: + -> -, / -> _, trailing = removed.
\* Character k comes from the k-th group of 6 bits of the bytes, the bits
\* past the last byte being 0.
\* uint8ArrayToBase64 without urlSafe: characters '+' and '/', padded with '='
uint8ArrayToBase64Standard(b) ==
  LET ByteAt(j) == IF j <= Len(b) THEN b[j] ELSE 0
      Std(n) == IF n = 62 THEN 43 ELSE IF n = 63 THEN 47 ELSE B64Chars[n + 1]
      CharAt(k) ==
        LET g == 3 * ((k - 1) \div 4)
            p == (k - 1) % 4
        IN IF k > (4 * Len(b) + 2) \div 3 THEN 61
           ELSE IF p = 0 THEN Std(ByteAt(g + 1) \div 4)
           ELSE IF p = 1 THEN Std((ByteAt(g + 1) % 4) * 16 + (ByteAt(g + 2) \div 16))
           ELSE IF p = 2 THEN Std((ByteAt(g + 2) % 16) * 4 + (ByteAt(g + 3) \div 64))
           ELSE Std(ByteAt(g + 3) % 64)
  IN [k \in 1..(4 * ((Len(b) + 2) \div 3)) |-> CharAt(k)]

uint8ArrayToBase64(b) ==
  LET ByteAt(j) == IF j <= Len(b) THEN b[j] ELSE 0
      CharAt(k) ==
        LET g == 3 * ((k - 1) \div 4)
            p == (k - 1) % 4
        IN IF p = 0 THEN Sextet(ByteAt(g + 1) \div 4)
           ELSE IF p = 1 THEN Sextet((ByteAt(g + 1) % 4) * 16 + (ByteAt(g + 2) \div 16))
           ELSE IF p = 2 THEN Sextet((ByteAt(g + 2) % 16) * 4 + (ByteAt(g + 3) \div 64))
           ELSE Sextet(ByteAt(g + 3) % 64)
  IN [k \in 1..((4 * Len(b) + 2) \div 3) |-> CharAt(k)]

\* base64UrlToBase64: - -> +, _ -> /.
base64UrlToBase64(s) ==
  [i \in 1..Len(s) |-> IF s[i] = 45 THEN 43 ELSE IF s[i] = 95 THEN 47 ELSE s[i]]

IsAsciiWhitespace(c) == c \in {9, 10, 12, 13, 32}

\* The value of a character of the standard base64 alphabet, -1 for any other.
SextetOf(c) ==
  IF c \in 65..90 THEN c - 65
  ELSE IF c \in 97..122 THEN c - 71
  ELSE IF c \in 48..57 THEN c + 4
  ELSE IF c = 43 THEN 62
  ELSE IF c = 47 THEN 63
  ELSE -1

\* Byte j is made of the bits 8j-7 .. 8j of the sextets; the bits left over
\* after the last whole byte are dropped.
DecodeSextets(s) ==
  LET ByteAt(j) ==
        LET g == 4 * ((j - 1) \div 3)
            p == (j - 1) % 3
        IN IF p = 0 THEN SextetOf(s[g + 1]) * 4 + (SextetOf(s[g + 2]) \div 16)
           ELSE IF p = 1 THEN (SextetOf(s[g + 2]) % 16) * 16 + (SextetOf(s[g + 3]) \div 4)
           ELSE (SextetOf(s[g + 3]) % 4) * 64 + SextetOf(s[g + 4])
  IN [j \in 1..((3 * Len(s)) \div 4) |-> ByteAt(j)]

\* atob: the forgiving base64 decode.  ASCII whitespace is dropped, one or
\* two trailing = are dropped when the length is a multiple of 4, a length
\* of 1 modulo 4 or a character outside the alphabet fails, and the bits
\* left over in the last character are discarded.
atob(data) ==
  LET Decoded(unpadded) ==
        IF Len(unpadded) % 4 = 1 \/ \E i \in 1..Len(unpadded) : SextetOf(unpadded[i]) = -1
        THEN [ok |-> FALSE, val |-> <<>>]
        ELSE [ok |-> TRUE, val |-> DecodeSextets(unpadded)]
      Unpadded(noWs, n) ==
        IF n > 0 /\ n % 4 = 0
        THEN IF noWs[n] = 61 /\ noWs[n - 1] = 61 THEN SubSeq(noWs, 1, n - 2)
             ELSE IF noWs[n] = 61 THEN SubSeq(noWs, 1, n - 1)
             ELSE noWs
        ELSE noWs
      Stripped(noWs) == Decoded(Unpadded(noWs, Len(noWs)))
  IN Stripped(SelectSeq(data, LAMBDA c : ~IsAsciiWhitespace(c)))

base64ToUint8Array(s) == atob(base64UrlToBase64(s))

(***************************************************************************)
(* encoding.ts                                                             *)
(***************************************************************************)
wantBuffer(input) == IF input.t = "string" THEN stringToUint8Array(input.v) ELSE input.v

base64Encode(input) == stringToUint8Array(uint8ArrayToBase64(wantBuffer(input)))

\* [ok |-> FALSE] stands for the BadDataError 'Invalid base64-encoded data'.
base64Decode(input) == base64ToUint8Array(TextDecode(wantBuffer(input)))

RECURSIVE StripLeadingZeros(_)
StripLeadingZeros(b) ==
  IF Len(b) > 0 /\ b[1] = 0 THEN StripLeadingZeros(Tail(b)) ELSE b

\* number < 2^31: the upper four bytes of the 64-bit big-endian view are 0.
intToBuffer(number) ==
  StripLeadingZeros(<<0, 0, 0, 0, number \div 16777216, (number \div 65536) % 256,
                      (number \div 256) % 256, number % 256>>)

\* bufferToInt without the RangeError of a buffer longer than 8 bytes
bufferToIntUnbounded(buffer) == [ok |-> TRUE, val |-> StripLeadingZeros(buffer)]

\* The unsigned 64-bit result is kept as its big-endian bytes without leading
\* zeros; a buffer longer than 8 bytes makes DataView.setUint8 throw RangeError.
bufferToInt(buffer) ==
  IF Len(buffer) > 8 THEN [ok |-> FALSE, val |-> <<>>]
  ELSE [ok |-> TRUE, val |-> StripLeadingZeros(buffer)]

\* The number a big-endian byte sequence of at most 3 bytes stands for.
RECURSIVE NatOf(_)
NatOf(b) == IF Len(b) = 0 THEN 0 ELSE NatOf(SubSeq(b, 1, Len(b) - 1)) * 256 + Last(b)

(***************************************************************************)
(* Results and errors.  A call either returns (ok) or throws (err names    *)
(* the error class).  msg is the message template with its two numbers,    *)
(* payload and date are the fields of BadSignatureError and                *)
(* BadTimeSignatureError (def = FALSE: undefined).                         *)
(***************************************************************************)
(* intToBuffer and bufferToInt over the whole unsigned 64-bit range.  An   *)
(* integer below 2^64 is written as its four 16-bit limbs, most            *)
(* significant first, so that no intermediate value leaves the range of    *)
(* the model checker's integers.                                           *)
(***************************************************************************)
\* view.setBigUint64(0, n, false): the 8 bytes of n, big-endian
setBigUint64(limbs) ==
  [k \in 1..8 |-> IF k % 2 = 1 THEN limbs[(k + 1) \div 2] \div 256 ELSE limbs[k \div 2] % 256]

\* view.getBigUint64(0, false) of the 8 bytes
getBigUint64(bytes) == [k \in 1..4 |-> bytes[2 * k - 1] * 256 + bytes[2 * k]]

\* intToBuffer that keeps the leading zero bytes
intToBufferUnstripped(limbs) == setBigUint64(limbs)

\* intToBuffer(number | bigint)
intToBufferBig(limbs) == StripLeadingZeros(setBigUint64(limbs))

\* bufferToInt(buffer): the bytes are written at the end of a zeroed view
\* of 8 bytes; setUint8 throws RangeError outside of it.
bufferToIntBig(buffer) ==
  IF Len(buffer) > 8 THEN [ok |-> FALSE, val |-> <<>>]
  ELSE [ok |-> TRUE, val |-> getBigUint64([k \in 1..(8 - Len(buffer)) |-> 0] \o buffer)]

(***************************************************************************)
Undefined == [t |-> "undefined", v |-> <<>>]
NoPayload == [def |-> FALSE, v |-> <<>>]
NoDate == [def |-> FALSE, sec |-> <<>>]
Payload(b) == [def |-> TRUE, v |-> b]
Msg(text) == [text |-> text, age |-> 0, maxAge |-> 0, wide |-> FALSE]
NoMsg == Msg("")

Ok(v) ==
  [ok |-> TRUE, val |-> v, bool |-> FALSE, pair |-> FALSE, err |-> "none", msg |-> NoMsg,
   payload |-> NoPayload, date |-> NoDate]
\* a returned boolean
OkBool(b) == [Ok(<<>>) EXCEPT !.bool = b]
OkPair(v, d) ==
  [ok |-> TRUE, val |-> v, bool |-> FALSE, pair |-> TRUE, err |-> "none", msg |-> NoMsg,
   payload |-> NoPayload, date |-> d]
Throw(e, m, p, d) ==
  [ok |-> FALSE, val |-> <<>>, bool |-> FALSE, pair |-> FALSE, err |-> e, msg |-> m,
   payload |-> p, date |-> d]

\* errors.ts: the classes an error is an instance of.
IsBadSignatureError(e) ==
  e \in {"BadSignatureError", "BadTimeSignatureError", "SignatureExpiredError"}
IsBadTimeSignatureError(e) == e \in {"BadTimeSignatureError", "SignatureExpiredError"}

(***************************************************************************)
(* The digest primitives (crypto.subtle / node:crypto) are external.  They *)
(* are modelled as collision-free: a digest is an injective encoding of    *)
(* the algorithm, the key and the data it was computed from.               *)
(***************************************************************************)
hashDigest(algo, data) == <<(IF algo = "SHA-1" THEN 1 ELSE 2)>> \o data

hmacDigest(algo, key, data) == <<(IF algo = "SHA-1" THEN 3 ELSE 4), Len(key)>> \o key \o data

(***************************************************************************)
(* SigningAlgorithm and its subclasses.  An algorithm is a record          *)
(* [cls, digestMethod]; ReverseAlgorithm is the custom algorithm of the    *)
(* test suite.                                                             *)
(***************************************************************************)
HMACAlgorithm(digestMethod) ==
  [cls |-> "HMACAlgorithm",
   digestMethod |-> IF digestMethod = "undefined" THEN "SHA-1" ELSE digestMethod]
NoneAlgorithm == [cls |-> "NoneAlgorithm", digestMethod |-> "undefined"]
ReverseAlgorithm == [cls |-> "ReverseAlgorithm", digestMethod |-> "undefined"]
AbstractAlgorithm == [cls |-> "SigningAlgorithm", digestMethod |-> "undefined"]
NoAlgorithm == [cls |-> "undefined", digestMethod |-> "undefined"]

Algorithm_getSignature(alg, key, value) ==
  CASE alg.cls = "NoneAlgorithm" -> Ok(<<>>)
    [] alg.cls = "HMACAlgorithm" -> Ok(hmacDigest(alg.digestMethod, key, value))
    [] alg.cls = "ReverseAlgorithm" -> Ok(Reverse(key \o value))
    [] OTHER -> Throw("Error", Msg("Not implemented"), NoPayload, NoDate)

Algorithm_verifySignature(alg, key, value, sig) ==
  LET expectedSig == Algorithm_getSignature(alg, key, value)
  IN expectedSig.ok /\ sig = expectedSig.val

\* areUint8ArraysEqual(a, b) of uint8array-extras: false at once for
\* different lengths, else the bytes are compared from the left up to the
\* first pair that differs.  work counts the byte comparisons made.
areUint8ArraysEqual(a, b) ==
  IF Len(a) # Len(b) THEN [ok |-> TRUE, equal |-> FALSE, work |-> 0]
  ELSE IF a = b THEN [ok |-> TRUE, equal |-> TRUE, work |-> Len(a)]
  ELSE [ok |-> TRUE, equal |-> FALSE,
        work |-> CHOOSE i \in 1..Len(a) : a[i] # b[i] /\ \A j \in 1..(i - 1) : a[j] = b[j]]

\* crypto.timingSafeEqual(a, b): throws RangeError for different lengths,
\* else compares all the bytes whatever they are.
timingSafeEqual(a, b) ==
  IF Len(a) # Len(b) THEN [ok |-> FALSE, equal |-> FALSE, work |-> 0]
  ELSE [ok |-> TRUE, equal |-> a = b, work |-> Len(a)]

\* SigningAlgorithm.verifySignature(key, value, sig) with the work of its
\* comparison: [threw, val, work].  Whatever getSignature or the comparison
\* throws is caught and answered with false.
Algorithm_verifySignatureWork(impl, alg, key, value, sig) ==
  LET Compared(c) == [threw |-> FALSE, val |-> c.ok /\ c.equal, work |-> c.work]
      Expected(expectedSig) ==
        IF ~expectedSig.ok THEN [threw |-> FALSE, val |-> FALSE, work |-> 0]
        ELSE IF impl = "sync" THEN Compared(timingSafeEqual(sig, expectedSig.val))
        ELSE Compared(areUint8ArraysEqual(sig, expectedSig.val))
  IN Expected(Algorithm_getSignature(alg, key, value))

(***************************************************************************)
(* Signer.  A signer instance is a record of its fields; impl tells the    *)
(* revision of the class: "async" (Uint8Array and crypto.subtle) or "sync" *)
(* (Buffer and node:crypto).                                               *)
(***************************************************************************)
\* A secret key given as a list of keys, and the options of the constructor.
KeyList(ks) == [t |-> "list", v |-> ks]
SignerOptions(secretKey, salt, keyDerivation, digestMethod, algorithm) ==
  [secretKey |-> secretKey, salt |-> salt, separator |-> Undefined,
   keyDerivation |-> keyDerivation, digestMethod |-> digestMethod, algorithm |-> algorithm]

makeKeysList(secretKey) ==
  IF secretKey.t \in {"string", "bytes"} THEN <<wantBuffer(secretKey)>>
  ELSE [i \in 1..Len(secretKey.v) |-> wantBuffer(secretKey.v[i])]

\* String.prototype.includes / Buffer.prototype.includes
Includes(hay, needle) ==
  \E i \in 0..(Len(hay) - Len(needle)) : SubSeq(hay, i + 1, i + Len(needle)) = needle

BASE64_ALPHABET ==
  [i \in 1..26 |-> 96 + i] \o [i \in 1..26 |-> 64 + i] \o [i \in 1..10 |-> 47 + i]
    \o <<45, 95, 61>>

\* The constructor; opts fields hold Undefined / "undefined" when not given.
Signer_new(impl, cls, opts) ==
  LET separator == IF opts.separator.t = "undefined" THEN Buf(<<Dot>>) ELSE opts.separator
  IN IF Includes(BASE64_ALPHABET, TextDecode(wantBuffer(separator)))
     THEN Throw("TypeError", Msg("The given separator cannot be used"), NoPayload, NoDate)
     ELSE Ok([impl |-> impl,
              cls |-> cls,
              secretKeys |-> makeKeysList(opts.secretKey),
              separator |-> wantBuffer(separator),
              salt |-> IF opts.salt.t = "undefined" THEN txtDefaultSignerSalt
                       ELSE wantBuffer(opts.salt),
              keyDerivation |-> IF opts.keyDerivation = "undefined" THEN "django-concat"
                                ELSE opts.keyDerivation,
              digestMethod |-> IF opts.digestMethod = "undefined" THEN "SHA-1"
                               ELSE opts.digestMethod,
              algorithm |-> IF opts.algorithm.cls = "undefined"
                            THEN HMACAlgorithm(opts.digestMethod)
                            ELSE opts.algorithm])

\* deriveKey that leaves the salt out of the derivation
deriveKeyUnsalted(s, secretKey) ==
  LET derivedSecretKey ==
        IF secretKey.t = "undefined" THEN Last(s.secretKeys) ELSE wantBuffer(secretKey)
  IN CASE s.keyDerivation = "concat" -> Ok(hashDigest(s.digestMethod, derivedSecretKey))
       [] s.keyDerivation = "django-concat" ->
            Ok(hashDigest(s.digestMethod, txtSigner \o derivedSecretKey))
       [] s.keyDerivation = "hmac" -> Ok(hmacDigest(s.digestMethod, derivedSecretKey, <<>>))
       [] s.keyDerivation = "none" -> Ok(derivedSecretKey)
       [] OTHER -> Throw("TypeError", Msg("Invalid key derivation method"), NoPayload, NoDate)

deriveKey(s, secretKey) ==
  LET derivedSecretKey ==
        IF secretKey.t = "undefined" THEN Last(s.secretKeys) ELSE wantBuffer(secretKey)
  IN CASE s.keyDerivation = "concat" ->
            Ok(hashDigest(s.digestMethod, s.salt \o derivedSecretKey))
       [] s.keyDerivation = "django-concat" ->
            Ok(hashDigest(s.digestMethod, s.salt \o txtSigner \o derivedSecretKey))
       [] s.keyDerivation = "hmac" -> Ok(hmacDigest(s.digestMethod, derivedSecretKey, s.salt))
       [] s.keyDerivation = "none" -> Ok(derivedSecretKey)
       [] OTHER -> Throw("TypeError", Msg("Invalid key derivation method"), NoPayload, NoDate)

getSignature(s, value) ==
  LET Encoded(signature) ==
        IF ~signature.ok THEN signature ELSE Ok(base64Encode(Buf(signature.val)))
      Signed(key) ==
        IF ~key.ok THEN key
        ELSE Encoded(Algorithm_getSignature(s.algorithm, key.val, wantBuffer(value)))
  IN Signed(deriveKey(s, Undefined))

Signer_sign(s, value) ==
  LET Joined(signature) ==
        IF ~signature.ok THEN signature
        ELSE Ok(wantBuffer(value) \o s.separator \o signature.val)
  IN Joined(getSignature(s, value))

\* Whether some key of the list verifies the signature, in list order.
RECURSIVE AnyKeyVerifies(_, _, _, _)
AnyKeyVerifies(s, keys, value, sig) ==
  IF Len(keys) = 0 THEN FALSE
  ELSE IF Algorithm_verifySignature(s.algorithm, deriveKey(s, Buf(keys[1])).val, value, sig)
       THEN TRUE
  ELSE AnyKeyVerifies(s, Tail(keys), value, sig)

\* verifySignature returns [ok, val: the boolean, keys: this.secretKeys after
\* the call].  The async revision walks this.secretKeys as it is.
verifySignatureAsync(s, value, sig) ==
  LET Verified(decodedSig) ==
        IF ~decodedSig.ok
        THEN [ok |-> TRUE, val |-> FALSE, err |-> "none", keys |-> s.secretKeys]
        ELSE IF ~deriveKey(s, Undefined).ok
        THEN [ok |-> FALSE, val |-> FALSE, err |-> "TypeError", keys |-> s.secretKeys]
        ELSE [ok |-> TRUE,
              val |-> AnyKeyVerifies(s, s.secretKeys, wantBuffer(value), decodedSig.val),
              err |-> "none",
              keys |-> s.secretKeys]
  IN Verified(base64Decode(sig))

\* The sync revision walks this.secretKeys.reverse(): Array.prototype.reverse
\* reverses the array in place and returns it.
verifySignatureSync(s, value, sig) ==
  LET Verified(decodedSig, reversed) ==
        IF ~decodedSig.ok
        THEN [ok |-> TRUE, val |-> FALSE, err |-> "none", keys |-> s.secretKeys]
        ELSE IF ~deriveKey(s, Undefined).ok
        THEN [ok |-> FALSE, val |-> FALSE, err |-> "TypeError", keys |-> reversed]
        ELSE [ok |-> TRUE,
              val |-> AnyKeyVerifies(s, reversed, wantBuffer(value), decodedSig.val),
              err |-> "none",
              keys |-> reversed]
  IN Verified(base64Decode(sig), Reverse(s.secretKeys))

verifySignature(s, value, sig) ==
  IF s.impl = "sync" THEN verifySignatureSync(s, value, sig)
  ELSE verifySignatureAsync(s, value, sig)

\* Uint8Array.prototype.indexOf, 0-based, -1 when absent: the split a
\* leftmost-separator unsign would make.
IndexOf(b, byte) ==
  IF \E i \in 1..Len(b) : b[i] = byte
  THEN (CHOOSE i \in 1..Len(b) : b[i] = byte /\ \A j \in 1..(i - 1) : b[j] # byte) - 1
  ELSE -1

\* Uint8Array.prototype.lastIndexOf, 0-based, -1 when absent.
LastIndexOf(b, byte) ==
  IF \E i \in 1..Len(b) : b[i] = byte
  THEN (CHOOSE i \in 1..Len(b) : b[i] = byte /\ \A j \in (i + 1)..Len(b) : b[j] # byte) - 1
  ELSE -1

\* slice(start) and slice(0, end) of a typed array, 0-based.
SliceFrom(b, start) == SubSeq(b, (IF start > Len(b) THEN Len(b) ELSE start) + 1, Len(b))
SliceTo(b, end) == SubSeq(b, 1, end)

\* unsign returns the result and this.secretKeys after the call.
unsignAsync(s, signedValue) ==
  LET Checked(value, verified) ==
        IF ~verified.ok
        THEN [res |-> Throw(verified.err, NoMsg, NoPayload, NoDate), keys |-> verified.keys]
        ELSE IF ~verified.val
        THEN [res |-> Throw("BadSignatureError",
                            Msg("Invalid signature for the provided value."),
                            Payload(value), NoDate),
              keys |-> verified.keys]
        ELSE [res |-> Ok(value), keys |-> verified.keys]
      Split(signedBuffer, separatorIndex) ==
        IF separatorIndex = -1
        THEN [res |-> Throw("BadSignatureError", Msg("Separator not found in value"),
                            Payload(signedBuffer), NoDate),
              keys |-> s.secretKeys]
        ELSE Checked(SliceTo(signedBuffer, separatorIndex),
                     verifySignature(s, Buf(SliceTo(signedBuffer, separatorIndex)),
                                     Buf(SliceFrom(signedBuffer,
                                                   separatorIndex + Len(s.separator)))))
  IN Split(wantBuffer(signedValue), LastIndexOf(wantBuffer(signedValue), s.separator[1]))

\* utils.ts rsplit(string, sep, 1): string.split(sep) scans from the left and
\* takes the matches that do not overlap; the result is the text before
\* the last of them and the text after it, both through toString() and
\* Buffer.from().  IndexOfFrom is the index of the first match at or after
\* from (-1 when there is none); LastSplitAt is the index of the last match
\* taken, found at or after i when the last one before i is at.
IndexOfFrom(hay, needle, from) ==
  LET First(matches) ==
        IF matches = {} THEN -1 ELSE CHOOSE k \in matches : \A j \in matches : k <= j
  IN First({k \in from..(Len(hay) - Len(needle)) :
              SubSeq(hay, k + 1, k + Len(needle)) = needle})

RECURSIVE LastSplitAt(_, _, _, _)
LastSplitAt(hay, needle, i, at) ==
  LET Found(k) == IF k = -1 THEN at ELSE LastSplitAt(hay, needle, k + Len(needle), k)
  IN Found(IndexOfFrom(hay, needle, i))

rsplit(string, sep) ==
  LET Parts(text, septext, at) ==
        <<stringToUint8Array(SubSeq(text, 1, at)),
          stringToUint8Array(SubSeq(text, at + Len(septext) + 1, Len(text)))>>
  IN Parts(TextDecode(string), TextDecode(sep), LastSplitAt(TextDecode(string), TextDecode(sep), 0, -1))

unsignSync(s, signedValue) ==
  LET Checked(value, verified) ==
        IF ~verified.ok
        THEN [res |-> Throw(verified.err, NoMsg, NoPayload, NoDate), keys |-> verified.keys]
        ELSE IF ~verified.val
        THEN [res |-> Throw("BadSignatureError", Msg("Signature does not match"),
                            Payload(value), NoDate),
              keys |-> verified.keys]
        ELSE [res |-> Ok(value), keys |-> verified.keys]
      Split(parts) == Checked(parts[1], verifySignature(s, Buf(parts[1]), Buf(parts[2])))
  IN IF ~Includes(wantBuffer(signedValue), s.separator)
     THEN [res |-> Throw("BadSignatureError", Msg("No separator found in value"),
                         NoPayload, NoDate),
           keys |-> s.secretKeys]
     ELSE Split(rsplit(wantBuffer(signedValue), s.separator))

Signer_unsign(s, signedValue) ==
  IF s.impl = "sync" THEN unsignSync(s, signedValue) ELSE unsignAsync(s, signedValue)

\* validate: true iff unsign returns; only BadSignatureError is caught.
Signer_validate(s, signedValue) ==
  LET Caught(u) ==
        [res |-> IF u.res.ok THEN OkBool(TRUE)
                 ELSE IF IsBadSignatureError(u.res.err) THEN OkBool(FALSE)
                 ELSE u.res,
         keys |-> u.keys]
  IN Caught(Signer_unsign(s, signedValue))

(***************************************************************************)
(* timed.ts: TimestampSigner.  getTimestamp() is the clock of the caller,  *)
(* passed as clock.  A timestamp read from a token is kept as the bytes    *)
(* bufferToInt made of it.                                                 *)
(***************************************************************************)
\* An optional number argument (maxAge).
NoMaxAge == [def |-> FALSE, n |-> 0]
MaxAge(n) == [def |-> TRUE, n |-> n]

\* a <= b for unsigned integers given as big-endian bytes without leading zeros
RECURSIVE LexLeq(_, _)
LexLeq(a, b) ==
  IF Len(a) = 0 THEN TRUE
  ELSE IF a[1] # b[1] THEN a[1] < b[1]
  ELSE LexLeq(Tail(a), Tail(b))

LeqBytes(a, b) == Len(a) < Len(b) \/ (Len(a) = Len(b) /\ LexLeq(a, b))

\* The last second a Date can hold: 8.64e15 ms = 8640000000000 s.
MaxDateSeconds == <<7, 219, 168, 33, 128, 0>>

\* new Date(timestamp * 1000), TypeError when the Date is invalid.
timestampToDate(timestamp) ==
  IF LeqBytes(timestamp, MaxDateSeconds)
  THEN [ok |-> TRUE, date |-> [def |-> TRUE, sec |-> timestamp]]
  ELSE [ok |-> FALSE, date |-> NoDate]

\* The Date of a small number of seconds.
DateOf(n) == [def |-> TRUE, sec |-> intToBuffer(n)]

\* age = getTimestamp() - timestampInt.  A timestamp of more than 3 bytes is
\* later than every clock value of the model: its age is negative.
IsSmall(timestamp) == Len(timestamp) <= 3
Age(clock, timestamp) == IF IsSmall(timestamp) THEN clock - NatOf(timestamp) ELSE 0
\* AgeAbove with the comparison age >= maxAge: expiry one second early.
AgeAtLeast(clock, timestamp, maxAge) == IsSmall(timestamp) /\ clock - NatOf(timestamp) >= maxAge
\* AgeAbove with the comparison age === maxAge + 1: expired in the first
\* second after the limit only.
AgeJustAbove(clock, timestamp, maxAge) == IsSmall(timestamp) /\ clock - NatOf(timestamp) = maxAge + 1
AgeAbove(clock, timestamp, maxAge) == IsSmall(timestamp) /\ clock - NatOf(timestamp) > maxAge
\* AgeNegative with one second of tolerance for a clock that runs behind.
AgeBelowMinusOne(clock, timestamp) == ~IsSmall(timestamp) \/ clock - NatOf(timestamp) < -1
AgeNegative(clock, timestamp) == ~IsSmall(timestamp) \/ clock - NatOf(timestamp) < 0

\* `Signature age ${age} > ${maxAge} seconds` and `Signature age ${age} < 0 seconds`
AgeMsg(text, clock, timestamp, maxAge) ==
  [text |-> text, age |-> Age(clock, timestamp), maxAge |-> maxAge,
   wide |-> ~IsSmall(timestamp)]

\* TimestampSigner.sign with the signature computed over the value alone.
TimestampSigner_signValueOnly(s, value, clock) ==
  LET Joined(newValue, signature) ==
        IF ~signature.ok THEN signature
        ELSE Ok(newValue \o s.separator \o signature.val)
  IN Joined(wantBuffer(value) \o s.separator \o base64Encode(Buf(intToBuffer(clock))),
            getSignature(s, value))

TimestampSigner_sign(s, value, clock) ==
  LET Joined(newValue, signature) ==
        IF ~signature.ok THEN signature
        ELSE Ok(newValue \o s.separator \o signature.val)
      Stamped(newValue) == Joined(newValue, getSignature(s, Buf(newValue)))
  IN Stamped(wantBuffer(value) \o s.separator \o base64Encode(Buf(intToBuffer(clock))))

\* Number(bufferToInt(base64Decode(timestampBuffer)))
\* ReadTimestamp without the base64 decoding of the segment.
ReadTimestampRaw(timestampBuffer) == bufferToInt(timestampBuffer)

ReadTimestamp(timestampBuffer) ==
  LET Read(decoded) ==
        IF ~decoded.ok THEN [ok |-> FALSE, val |-> <<>>] ELSE bufferToInt(decoded.val)
  IN Read(base64Decode(Buf(timestampBuffer)))

\* The checks on a verified value: maxAge, then returnTimestamp.
CheckAge(value, timestampInt, maxAge, returnTimestamp, clock) ==
  LET Checked(timestampDate) ==
        IF maxAge.def /\ AgeAbove(clock, timestampInt, maxAge.n)
        THEN IF timestampDate.ok
             THEN Throw("SignatureExpiredError",
                        AgeMsg("Signature age {age} > {maxAge} seconds", clock, timestampInt,
                               maxAge.n),
                        Payload(value), timestampDate.date)
             ELSE Throw("TypeError", Msg("Invalid timestamp"), NoPayload, NoDate)
        ELSE IF maxAge.def /\ AgeNegative(clock, timestampInt)
        THEN IF timestampDate.ok
             THEN Throw("SignatureExpiredError",
                        AgeMsg("Signature age {age} < 0 seconds", clock, timestampInt, 0),
                        Payload(value), timestampDate.date)
             ELSE Throw("TypeError", Msg("Invalid timestamp"), NoPayload, NoDate)
        ELSE IF returnTimestamp
        THEN IF timestampDate.ok THEN OkPair(value, timestampDate.date)
             ELSE Throw("TypeError", Msg("Invalid timestamp"), NoPayload, NoDate)
        ELSE Ok(value)
  IN Checked(timestampToDate(timestampInt))

\* new BadTimeSignatureError('Missing timestamp', result)
MissingTimestampNoPayload(result) ==
  Throw("BadTimeSignatureError", Msg("Missing timestamp"), NoPayload, NoDate)

MissingTimestamp(result) ==
  Throw("BadTimeSignatureError", Msg("Missing timestamp"), Payload(result), NoDate)

\* new BadTimeSignatureError(sigError.message, value, timestampDate)
SignatureErrorUndated(sigError, value, timestampDate) ==
  Throw("BadTimeSignatureError", sigError.msg, Payload(value), NoDate)

SignatureErrorDated(sigError, value, timestampDate) ==
  Throw("BadTimeSignatureError", sigError.msg, Payload(value), timestampDate)

\* src/timed.ts unsign from the point where super.unsign has settled with
\* sup; clock is what getTimestamp() reads then.
unsignTimedSettled(s, settled, maxAge, returnTimestamp, clock) ==
  LET Dated(sup, value, timestampInt, timestampDate) ==
        IF ~timestampInt.ok
        THEN Throw("BadTimeSignatureError", Msg("Malformed timestamp"), Payload(value), NoDate)
        ELSE IF ~sup.res.ok
        THEN IF timestampDate.ok
             THEN SignatureErrorDated(sup.res, value, timestampDate.date)
             ELSE Throw("BadTimeSignatureError", Msg("Malformed timestamp"), Payload(value),
                        NoDate)
        ELSE IF maxAge.def /\ ~timestampDate.ok
        THEN Throw("TypeError", Msg("Invalid timestamp"), NoPayload, NoDate)
        ELSE CheckAge(value, timestampInt.val, maxAge, returnTimestamp, clock)
      Stamped(sup, value, timestampInt) ==
        Dated(sup, value, timestampInt, timestampToDate(timestampInt.val))
      Split(sup, result, separatorIndex) ==
        IF separatorIndex = -1
        THEN MissingTimestamp(result)
        ELSE Stamped(sup, SliceTo(result, separatorIndex),
                     ReadTimestamp(SliceFrom(result, separatorIndex + Len(s.separator))))
      Result(sup) == IF sup.res.ok THEN sup.res.val ELSE sup.res.payload.v
      Caught(sup) ==
        [res |-> IF ~sup.res.ok /\ ~IsBadSignatureError(sup.res.err) THEN sup.res
                 ELSE Split(sup, Result(sup), LastIndexOf(Result(sup), s.separator[1])),
         keys |-> sup.keys]
  IN Caught(settled)

\* src/timed.ts unsign, on the Signer of part_015
unsignTimedAsync(s, signedValue, maxAge, returnTimestamp, clock) ==
  unsignTimedSettled(s, unsignAsync(s, signedValue), maxAge, returnTimestamp, clock)

\* The unsign of the revision that extends the Signer of src/signer.ts
unsignTimedSync(s, signedValue, maxAge, returnTimestamp, clock) ==
  LET Dated(sup, value, timestampInt, timestampDate) ==
        IF ~sup.res.ok
        THEN IF timestampInt.ok /\ ~timestampDate.ok
             THEN Throw("BadTimeSignatureError", Msg("Malformed timestamp"), Payload(value),
                        NoDate)
             ELSE SignatureErrorDated(sup.res, value,
                                      IF timestampInt.ok THEN timestampDate.date ELSE NoDate)
        ELSE IF ~timestampInt.ok
        THEN Throw("BadTimeSignatureError", Msg("Malformed timestamp"), Payload(value), NoDate)
        ELSE CheckAge(value, timestampInt.val, maxAge, returnTimestamp, clock)
      Stamped(sup, value, timestampInt) ==
        Dated(sup, value, timestampInt, timestampToDate(timestampInt.val))
      Split(sup, parts) == Stamped(sup, parts[1], ReadTimestamp(parts[2]))
      Found(sup, result) ==
        IF ~Includes(result, s.separator)
        THEN IF ~sup.res.ok THEN sup.res
             ELSE MissingTimestamp(result)
        ELSE Split(sup, rsplit(result, s.separator))
      Caught(sup) ==
        [res |-> IF ~sup.res.ok /\ ~IsBadSignatureError(sup.res.err) THEN sup.res
                 ELSE Found(sup, IF sup.res.ok THEN sup.res.val
                                 ELSE IF sup.res.payload.def THEN sup.res.payload.v
                                 ELSE <<>>),
         keys |-> sup.keys]
  IN Caught(unsignSync(s, signedValue))

TimestampSigner_unsign(s, signedValue, maxAge, returnTimestamp, clock) ==
  IF s.impl = "sync" THEN unsignTimedSync(s, signedValue, maxAge, returnTimestamp, clock)
  ELSE unsignTimedAsync(s, signedValue, maxAge, returnTimestamp, clock)

\* validate: true iff unsign returns; every error is caught.
TimestampSigner_validate(s, signedValue, maxAge, clock) ==
  LET Caught(u) == [res |-> OkBool(u.res.ok), keys |-> u.keys]
  IN Caught(TimestampSigner_unsign(s, signedValue, maxAge, FALSE, clock))

(***************************************************************************)
(* JSON, the default serializer.  A JSON value is kept flattened in prefix *)
(* order, as a sequence of integers:                                       *)
(*   <<-1>> null   <<-2>> false   <<-3>> true                              *)
(*   <<-4, n, c1, ..., cn>>          a string of n code points             *)
(*   <<-5, n>> \o item1 \o ... \o itemn        an array                    *)
(*   <<-6, n>> \o key1 \o value1 \o ...        an object, keys are strings *)
(*   <<-7, n, c1, ..., cn>>          a number, by its lexeme               *)
(* A text is a sequence of code points.  Not modelled: duplicate keys      *)
(* (the last wins), surrogate pairs written as two \u escapes, and the     *)
(* numeric value of a lexeme that is not in its shortest form.             *)
(***************************************************************************)
RECURSIVE Concat(_)
Concat(ss) == IF Len(ss) = 0 THEN <<>> ELSE ss[1] \o Concat(Tail(ss))

JNull == <<-1>>
JFalse == <<-2>>
JTrue == <<-3>>
JString(chars) == <<-4, Len(chars)>> \o chars
JArray(items) == <<-5, Len(items)>> \o Concat(items)
JObject(members) == <<-6, Len(members) \div 2>> \o Concat(members)
JNumber(lexeme) == <<-7, Len(lexeme)>> \o lexeme

HexDigit(d) == IF d < 10 THEN 48 + d ELSE 87 + d
UnicodeEscape(c) ==
  <<92, 117, HexDigit(c \div 4096), HexDigit((c \div 256) % 16), HexDigit((c \div 16) % 16),
    HexDigit(c % 16)>>

\* QuoteJSONString: one code point of a string
\* EscapeChar that leaves every character as it is.
EscapeNone(c) == <<c>>

EscapeChar(c) ==
  CASE c = 34 -> <<92, 34>>
    [] c = 92 -> <<92, 92>>
    [] c = 8 -> <<92, 98>>
    [] c = 9 -> <<92, 116>>
    [] c = 10 -> <<92, 110>>
    [] c = 12 -> <<92, 102>>
    [] c = 13 -> <<92, 114>>
    [] c < 32 /\ c \notin {8, 9, 10, 12, 13} -> UnicodeEscape(c)
    [] c >= 55296 /\ c <= 57343 -> UnicodeEscape(c)
    [] OTHER -> <<c>>

Quote(chars) == <<34>> \o Concat([i \in 1..Len(chars) |-> EscapeChar(chars[i])]) \o <<34>>

RECURSIVE StringifyAt(_, _), StringifyItems(_, _, _), StringifyMembers(_, _, _)
\* the text of the value that starts at v[i], and the index after the value
StringifyAt(v, i) ==
  CASE v[i] = -1 -> [text |-> <<110, 117, 108, 108>>, next |-> i + 1]
    [] v[i] = -2 -> [text |-> <<102, 97, 108, 115, 101>>, next |-> i + 1]
    [] v[i] = -3 -> [text |-> <<116, 114, 117, 101>>, next |-> i + 1]
    [] v[i] = -4 -> [text |-> Quote(SubSeq(v, i + 2, i + 1 + v[i + 1])), next |-> i + 2 + v[i + 1]]
    [] v[i] = -7 -> [text |-> SubSeq(v, i + 2, i + 1 + v[i + 1]), next |-> i + 2 + v[i + 1]]
    [] v[i] = -5 -> LET r == StringifyItems(v, i + 2, v[i + 1])
                    IN [text |-> <<91>> \o r.text \o <<93>>, next |-> r.next]
    [] v[i] = -6 -> LET r == StringifyMembers(v, i + 2, v[i + 1])
                    IN [text |-> <<123>> \o r.text \o <<125>>, next |-> r.next]

StringifyItems(v, i, n) ==
  IF n = 0 THEN [text |-> <<>>, next |-> i]
  ELSE LET item == StringifyAt(v, i)
           rest == StringifyItems(v, item.next, n - 1)
       IN [text |-> item.text \o (IF n > 1 THEN <<44>> ELSE <<>>) \o rest.text,
           next |-> rest.next]

StringifyMembers(v, i, n) ==
  IF n = 0 THEN [text |-> <<>>, next |-> i]
  ELSE LET key == StringifyAt(v, i)
           value == StringifyAt(v, key.next)
           rest == StringifyMembers(v, value.next, n - 1)
       IN [text |-> key.text \o <<58>> \o value.text \o (IF n > 1 THEN <<44>> ELSE <<>>)
                      \o rest.text,
           next |-> rest.next]

JSON_stringify(value) == StringifyAt(value, 1).text

\* JSON.parse: [ok, val, next]; next is the index after what was read.
ParseFail == [ok |-> FALSE, val |-> <<>>, next |-> 0]
Parsed(val, next) == [ok |-> TRUE, val |-> val, next |-> next]

At(t, i) == IF i >= 1 /\ i <= Len(t) THEN t[i] ELSE -1
IsDigit(c) == c >= 48 /\ c <= 57
IsHex(c) == IsDigit(c) \/ (c >= 97 /\ c <= 102) \/ (c >= 65 /\ c <= 70)
HexValue(c) == IF IsDigit(c) THEN c - 48 ELSE IF c >= 97 THEN c - 87 ELSE c - 55

RECURSIVE SkipWs(_, _)
SkipWs(t, i) == IF At(t, i) \in {32, 9, 10, 13} THEN SkipWs(t, i + 1) ELSE i

RECURSIVE DigitsEnd(_, _)
DigitsEnd(t, i) == IF IsDigit(At(t, i)) THEN DigitsEnd(t, i + 1) ELSE i

StartsWithAt(t, i, lit) == i + Len(lit) - 1 <= Len(t) /\ SubSeq(t, i, i + Len(lit) - 1) = lit

\* number: -? (0 | [1-9][0-9]*) (. [0-9]+)? ([eE] [+-]? [0-9]+)?
ParseNumber(t, i) ==
  LET int == IF At(t, i) = 45 THEN i + 1 ELSE i
      intEnd == IF At(t, int) = 48 THEN int + 1 ELSE DigitsEnd(t, int)
      fracEnd == IF At(t, intEnd) = 46 THEN DigitsEnd(t, intEnd + 1) ELSE intEnd
      exp == IF At(t, fracEnd + 1) \in {43, 45} THEN fracEnd + 2 ELSE fracEnd + 1
      expEnd == IF At(t, fracEnd) \in {101, 69} THEN DigitsEnd(t, exp) ELSE fracEnd
  IN IF intEnd = int THEN ParseFail
     ELSE IF At(t, intEnd) = 46 /\ fracEnd = intEnd + 1 THEN ParseFail
     ELSE IF At(t, fracEnd) \in {101, 69} /\ expEnd = exp THEN ParseFail
     ELSE Parsed(JNumber(SubSeq(t, i, expEnd - 1)), expEnd)

RECURSIVE ParseChars(_, _, _)
\* the characters of a string up to the closing quote, i is after the opening one
ParseChars(t, i, acc) ==
  LET c == At(t, i)
      e == At(t, i + 1)
  IN IF c = -1 \/ (c >= 0 /\ c < 32) THEN ParseFail
     ELSE IF c = 34 THEN Parsed(JString(acc), i + 1)
     ELSE IF c # 92 THEN ParseChars(t, i + 1, Append(acc, c))
     ELSE IF e \in {34, 92, 47} THEN ParseChars(t, i + 2, Append(acc, e))
     ELSE IF e = 98 THEN ParseChars(t, i + 2, Append(acc, 8))
     ELSE IF e = 102 THEN ParseChars(t, i + 2, Append(acc, 12))
     ELSE IF e = 110 THEN ParseChars(t, i + 2, Append(acc, 10))
     ELSE IF e = 114 THEN ParseChars(t, i + 2, Append(acc, 13))
     ELSE IF e = 116 THEN ParseChars(t, i + 2, Append(acc, 9))
     ELSE IF e = 117 /\ \A k \in 2..5 : IsHex(At(t, i + k))
     THEN ParseChars(t, i + 6,
                     Append(acc, HexValue(t[i + 2]) * 4096 + HexValue(t[i + 3]) * 256
                                   + HexValue(t[i + 4]) * 16 + HexValue(t[i + 5])))
     ELSE ParseFail

RECURSIVE ParseValue(_, _), ParseElements(_, _, _, _), ParseMembers(_, _, _, _)
\* a value that starts at t[i]
ParseValue(t, i) ==
  LET c == At(t, i)
      inner == SkipWs(t, i + 1)
  IN IF StartsWithAt(t, i, <<110, 117, 108, 108>>) THEN Parsed(JNull, i + 4)
     ELSE IF StartsWithAt(t, i, <<102, 97, 108, 115, 101>>) THEN Parsed(JFalse, i + 5)
     ELSE IF StartsWithAt(t, i, <<116, 114, 117, 101>>) THEN Parsed(JTrue, i + 4)
     ELSE IF c = 34 THEN ParseChars(t, i + 1, <<>>)
     ELSE IF c = 45 \/ IsDigit(c) THEN ParseNumber(t, i)
     ELSE IF c = 91
     THEN IF At(t, inner) = 93 THEN Parsed(JArray(<<>>), inner + 1)
          ELSE ParseElements(t, inner, 0, <<>>)
     ELSE IF c = 123
     THEN IF At(t, inner) = 125 THEN Parsed(JObject(<<>>), inner + 1)
          ELSE ParseMembers(t, inner, 0, <<>>)
     ELSE ParseFail

\* the elements of an array from t[i] on, n of them read into acc
ParseElements(t, i, n, acc) ==
  LET item == ParseValue(t, i)
      after == SkipWs(t, item.next)
  IN IF ~item.ok THEN ParseFail
     ELSE IF At(t, after) = 93 THEN Parsed(<<-5, n + 1>> \o acc \o item.val, after + 1)
     ELSE IF At(t, after) = 44
     THEN ParseElements(t, SkipWs(t, after + 1), n + 1, acc \o item.val)
     ELSE ParseFail

\* the members of an object from t[i] on, n of them read into acc
ParseMembers(t, i, n, acc) ==
  LET key == IF At(t, i) = 34 THEN ParseChars(t, i + 1, <<>>) ELSE ParseFail
      colon == SkipWs(t, key.next)
      value == ParseValue(t, SkipWs(t, colon + 1))
      after == SkipWs(t, value.next)
  IN IF ~key.ok \/ At(t, colon) # 58 THEN ParseFail
     ELSE IF ~value.ok THEN ParseFail
     ELSE IF At(t, after) = 125
     THEN Parsed(<<-6, n + 1>> \o acc \o key.val \o value.val, after + 1)
     ELSE IF At(t, after) = 44
     THEN ParseMembers(t, SkipWs(t, after + 1), n + 1, acc \o key.val \o value.val)
     ELSE ParseFail

\* JSON.parse(text): SyntaxError unless the text is one value between white space
JSON_parse(text) ==
  LET Whole(value) ==
        IF value.ok /\ SkipWs(text, value.next) = Len(text) + 1
        THEN [ok |-> TRUE, val |-> value.val]
        ELSE [ok |-> FALSE, val |-> <<>>]
  IN Whole(ParseValue(text, SkipWs(text, 1)))

(***************************************************************************)
(* pako.deflate / pako.inflate.  The library is not part of the sources;   *)
(* it is modelled as a zlib frame (header 78 9c, body, Adler-32 of the     *)
(* data) whose body is run-length coded: a byte stands for itself, 255 n b *)
(* for n copies of b, and 0 ends the body.  Like zlib it costs 7 bytes on  *)
(* top of the literals and shortens long runs, and inflate rejects what    *)
(* is not a frame with the right checksum.                                 *)
(***************************************************************************)
RECURSIVE AdlerSums(_, _, _)
AdlerSums(data, a, b) ==
  IF Len(data) = 0 THEN <<a, b>>
  ELSE AdlerSums(Tail(data), (a + data[1]) % 65521, (b + ((a + data[1]) % 65521)) % 65521)

Adler32(data) ==
  LET sums == AdlerSums(data, 1, 0)
  IN <<sums[2] \div 256, sums[2] % 256, sums[1] \div 256, sums[1] % 256>>

RECURSIVE RunLength(_, _)
RunLength(data, i) ==
  IF i < Len(data) /\ data[i + 1] = data[i] THEN 1 + RunLength(data, i + 1) ELSE 1

RECURSIVE DeflateBody(_, _)
DeflateBody(data, i) ==
  IF i > Len(data) THEN <<0>>
  ELSE IF RunLength(data, i) >= 4 \/ data[i] \in {0, 255}
  THEN <<255, RunLength(data, i), data[i]>> \o DeflateBody(data, i + RunLength(data, i))
  ELSE <<data[i]>> \o DeflateBody(data, i + 1)

pakoCompress(buffer) == <<120, 156>> \o DeflateBody(buffer, 1) \o Adler32(buffer)

RECURSIVE InflateBody(_, _, _)
InflateBody(b, i, acc) ==
  IF i > Len(b) THEN ParseFail
  ELSE IF b[i] = 0 THEN Parsed(acc, i + 1)
  ELSE IF b[i] # 255 THEN InflateBody(b, i + 1, Append(acc, b[i]))
  ELSE IF i + 2 > Len(b) \/ b[i + 1] = 0 THEN ParseFail
  ELSE InflateBody(b, i + 3, acc \o [k \in 1..b[i + 1] |-> b[i + 2]])

pakoDecompress(buffer) ==
  LET Summed(body) ==
        IF ~body.ok THEN ParseFail
        ELSE IF SubSeq(buffer, body.next, Len(buffer)) # Adler32(body.val) THEN ParseFail
        ELSE body
  IN IF Len(buffer) < 2 \/ SubSeq(buffer, 1, 2) # <<120, 156>> THEN ParseFail
     ELSE Summed(InflateBody(buffer, 3, <<>>))

(***************************************************************************)
(* url-safe.ts: the payload transform of the URL-safe serializers.         *)
(***************************************************************************)
BadPayloadError(text) == Throw("BadPayloadError", Msg(text), NoPayload, NoDate)

\* decodePayload that does not look for the marker
decodePayloadUnmarked(impl, payload) ==
  LET Decoded(decodedPayload) ==
        IF ~decodedPayload.ok
        THEN BadPayloadError("Could not base64-decode the payload due to an error")
        ELSE Ok(decodedPayload.val)
  IN Decoded(base64Decode(Buf(payload)))

decodePayload(impl, payload) ==
  LET Inflated(inflated) ==
        IF ~inflated.ok
        THEN BadPayloadError(IF impl = "sync"
                             THEN "Could not zlib-decompress the payload before decoding the payload"
                             ELSE "Could not decompress the payload after decoding")
        ELSE Ok(inflated.val)
      Decoded(decompress, decodedPayload) ==
        IF ~decodedPayload.ok
        THEN BadPayloadError(IF impl = "sync"
                             THEN "Could not base64-decode the payload because of an error"
                             ELSE "Could not base64-decode the payload due to an error")
        ELSE IF ~decompress THEN Ok(decodedPayload.val)
        ELSE Inflated(pakoDecompress(decodedPayload.val))
      Sliced(decompress) ==
        Decoded(decompress, base64Decode(Buf(IF decompress THEN Tail(payload) ELSE payload)))
  IN Sliced(Len(payload) > 0 /\ payload[1] = Dot)

\* encodePayload that takes the compressed form when it is one byte smaller
encodePayloadOneSmaller(json) ==
  LET Marked(isCompressed, base64Payload) ==
        IF isCompressed THEN <<Dot>> \o base64Payload ELSE base64Payload
      Chosen(compressed, isCompressed) ==
        Marked(isCompressed, base64Encode(Buf(IF isCompressed THEN compressed ELSE json)))
      Compressed(compressed) == Chosen(compressed, Len(compressed) <= Len(json) - 1)
  IN Compressed(pakoCompress(json))

encodePayload(json) ==
  LET Marked(isCompressed, base64Payload) ==
        IF isCompressed THEN <<Dot>> \o base64Payload ELSE base64Payload
      Chosen(compressed, isCompressed) ==
        Marked(isCompressed, base64Encode(Buf(IF isCompressed THEN compressed ELSE json)))
      Compressed(compressed) == Chosen(compressed, Len(compressed) < Len(json) - 1)
  IN Compressed(pakoCompress(json))

(***************************************************************************)
(* serializer.ts and the serializers of timed.ts and url-safe.ts.  A       *)
(* serializer instance is a record of its fields; flavour names its class  *)
(* and impl its revision, as for the signer it makes.                      *)
(***************************************************************************)
IsTimed(flavour) == flavour \in {"TimedSerializer", "URLSafeTimedSerializer"}
IsURLSafe(flavour) == flavour \in {"URLSafeSerializer", "URLSafeTimedSerializer"}

NoSignerOpts == [keyDerivation |-> "undefined", digestMethod |-> "undefined",
                 algorithm |-> NoAlgorithm]

Serializer_new(impl, flavour, secretKey, salt, signerOpts) ==
  [flavour |-> flavour,
   impl |-> impl,
   secretKeys |-> makeKeysList(secretKey),
   salt |-> IF salt.t = "undefined" THEN txtDefaultSerializerSalt ELSE wantBuffer(salt),
   signerOpts |-> signerOpts]

\* Serializer.parsePayload with the JSON text serializer
Serializer_parsePayload(impl, payload) ==
  LET Loaded(parsed) ==
        IF parsed.ok THEN Ok(parsed.val)
        ELSE BadPayloadError(IF impl = "sync"
                             THEN "Could not load the payload because an error occurred on unserializing the data."
                             ELSE "Failed to deserialize the data due to an error.")
  IN Loaded(JSON_parse(TextDecode(payload)))

\* parsePayload of the instance's class
parsePayload(ser, payload) ==
  LET Decoded(json) == IF ~json.ok THEN json ELSE Serializer_parsePayload(ser.impl, json.val)
  IN IF ~IsURLSafe(ser.flavour) THEN Serializer_parsePayload(ser.impl, payload)
     ELSE Decoded(decodePayload(ser.impl, payload))

\* stringifyPayload of the instance's class
stringifyPayload(ser, object) ==
  LET Encoded(json) == IF IsURLSafe(ser.flavour) THEN encodePayload(json) ELSE json
  IN Encoded(stringToUint8Array(JSON_stringify(object)))

\* makeSigner(salt): salt ?? this.salt
makeSigner(ser, salt) ==
  Signer_new(ser.impl,
             IF IsTimed(ser.flavour) THEN "TimestampSigner" ELSE "Signer",
             SignerOptions(KeyList([i \in 1..Len(ser.secretKeys) |-> Buf(ser.secretKeys[i])]),
                           IF salt.t = "undefined" THEN Buf(ser.salt) ELSE salt,
                           ser.signerOpts.keyDerivation, ser.signerOpts.digestMethod,
                           ser.signerOpts.algorithm)).val

\* sign of the signer class: TimestampSigner overrides Signer.sign
SignWith(s, value, clock) ==
  IF s.cls = "TimestampSigner" THEN TimestampSigner_sign(s, value, clock)
  ELSE Signer_sign(s, value)

\* stringify(object, salt): the token is a string in the async revision and
\* a Buffer made from that string in the sync one
Serializer_stringify(ser, object, salt, clock) ==
  LET Text(signed) ==
        IF ~signed.ok THEN signed
        ELSE IF ser.impl = "sync" THEN Ok(Buf(stringToUint8Array(TextDecode(signed.val))))
        ELSE Ok(Str(TextDecode(signed.val)))
  IN Text(SignWith(makeSigner(ser, salt), Buf(stringifyPayload(ser, object)), clock))

\* Serializer.parse(signed, salt)
\* parse with the payload decoder run on the unverified payload, before the
\* outcome of unsign is looked at.
Serializer_parseDecodeFirst(ser, signed, salt) ==
  LET Decoded(unsigned, payload) ==
        IF ~payload.ok THEN payload ELSE IF ~unsigned.ok THEN unsigned ELSE payload
      Loaded(unsigned) ==
        Decoded(unsigned,
                parsePayload(ser, IF unsigned.ok THEN unsigned.val
                                  ELSE IF unsigned.payload.def THEN unsigned.payload.v
                                  ELSE <<>>))
  IN Loaded(Signer_unsign(makeSigner(ser, salt), Buf(wantBuffer(signed))).res)

Serializer_parse(ser, signed, salt) ==
  LET Loaded(payload) == IF ~payload.ok THEN payload ELSE parsePayload(ser, payload.val)
  IN Loaded(Signer_unsign(makeSigner(ser, salt), Buf(wantBuffer(signed))).res)

\* TimedSerializer.parse(signed, salt, maxAge, returnTimestamp).  The async
\* revision passes makeSigner a falsy salt as undefined.
TimedSerializer_parse(ser, signed, salt, maxAge, returnTimestamp, clock) ==
  LET Paired(unsigned, payload) ==
        IF ~payload.ok THEN payload
        ELSE IF returnTimestamp THEN OkPair(payload.val, unsigned.date)
        ELSE payload
      Loaded(unsigned) ==
        IF ~unsigned.ok THEN unsigned ELSE Paired(unsigned, parsePayload(ser, unsigned.val))
      signer_ ==
        makeSigner(ser, IF ser.impl = "async" /\ salt.t = "string" /\ Len(salt.v) = 0
                        THEN Undefined ELSE salt)
  IN Loaded(TimestampSigner_unsign(signer_, Buf(wantBuffer(signed)), maxAge, TRUE, clock).res)

\* parse of the instance's class
parse(ser, signed, salt, maxAge, returnTimestamp, clock) ==
  IF IsTimed(ser.flavour) THEN TimedSerializer_parse(ser, signed, salt, maxAge, returnTimestamp, clock)
  ELSE Serializer_parse(ser, signed, salt)

IsBadPayloadError(e) == e = "BadPayloadError"

\* The pair [signatureValid, payload] that parseUnsafe returns.
Unsafe(valid, payload) == [Ok(payload) EXCEPT !.bool = valid, !.pair = TRUE]

\* _handleParseUnsafeError that gives [false, null] for signature errors only.
handleSignatureErrorOnly(ser, error) ==
  IF IsBadSignatureError(error.err) THEN Unsafe(FALSE, JNull) ELSE error

\* _handleParseUnsafeError.  The async revision answers [false, null] to a
\* signature or payload error; the sync revision answers a signature error
\* with the payload the error carries, deserialized, and rethrows the rest.
handleParseUnsafeError(ser, error) ==
  LET Loaded(payload) ==
        IF payload.ok THEN Unsafe(FALSE, payload.val)
        ELSE IF IsBadPayloadError(payload.err) THEN Unsafe(FALSE, JNull)
        ELSE payload
  IN IF ser.impl = "async"
     THEN IF IsBadSignatureError(error.err) \/ IsBadPayloadError(error.err)
          THEN Unsafe(FALSE, JNull)
          ELSE error
     ELSE IF ~IsBadSignatureError(error.err) THEN error
     ELSE IF ~error.payload.def THEN Unsafe(FALSE, JNull)
     ELSE Loaded(parsePayload(ser, error.payload.v))

\* parseUnsafe(signed, salt) and, on the timed serializers,
\* parseUnsafe(signed, salt, maxAge)
parseUnsafe(ser, signed, salt, maxAge, clock) ==
  LET Caught(r) == IF r.ok THEN Unsafe(TRUE, r.val) ELSE handleParseUnsafeError(ser, r)
  IN Caught(parse(ser, signed, salt, maxAge, FALSE, clock))

\* The unsign call that parse makes on the signer it builds.
parseUnsign(ser, signed, salt, maxAge, clock) ==
  IF IsTimed(ser.flavour)
  THEN TimestampSigner_unsign(makeSigner(ser, IF ser.impl = "async" /\ salt.t = "string"
                                                   /\ Len(salt.v) = 0
                                              THEN Undefined ELSE salt),
                              Buf(wantBuffer(signed)), maxAge, TRUE, clock).res
  ELSE Signer_unsign(makeSigner(ser, salt), Buf(wantBuffer(signed))).res

\* The calls parse makes, in their order: unsign, and parsePayload once
\* unsign has returned.
parseSteps(ser, signed, salt, maxAge, clock) ==
  LET Steps(unsigned) == IF unsigned.ok THEN <<"unsign", "parsePayload">> ELSE <<"unsign">>
  IN Steps(parseUnsign(ser, signed, salt, maxAge, clock))

\* The calls parseUnsafe makes: those of parse, and in the sync revision the
\* parsePayload of _handleParseUnsafeError on the payload of a signature error.
parseUnsafeSteps(ser, signed, salt, maxAge, clock) ==
  LET Steps(unsigned) ==
        IF ser.impl = "sync" /\ ~unsigned.ok /\ IsBadSignatureError(unsigned.err)
             /\ unsigned.payload.def
        THEN <<"parsePayload">>
        ELSE <<>>
  IN parseSteps(ser, signed, salt, maxAge, clock)
       \o Steps(parseUnsign(ser, signed, salt, maxAge, clock))

(***************************************************************************)
(* The state.                                                              *)
(*   signer       the Signer / TimestampSigner instance under test         *)
(*   constructed  that instance as its constructor left it                 *)
(*   serializer   the Serializer instance under test                       *)
(*   now          the system clock, in whole seconds                       *)
(*   token        the token in flight (a StringBuffer), or NoToken         *)
(*   origin       how the token in flight was produced                     *)
(*   last         the last call made and what it returned or threw         *)
(*   calls        the calls kept track of: the frames of the calls that    *)
(*                are suspended at an await (SpecAsync), the calls that    *)
(*                found the token too old (SpecExpiry), else none          *)
(***************************************************************************)
VARIABLES signer, constructed, serializer, now, token, origin, last, calls

vars == <<signer, constructed, serializer, now, token, origin, last, calls>>

K1 == <<112>>
K2 == <<113>>
SaltA == <<97>>
SaltB == <<98>>

\* secretKey options: a single key, or a list of keys oldest to newest.
KeyChoices == {Buf(K1), Buf(K2), KeyList(<<Buf(K1), Str(K2)>>)}

\* Byte values to sign: empty, plain, and one that contains the separator.
Values == {<<>>, <<118>>, <<97, Dot, 98>>}

NoToken == Undefined
NoJSON == [t |-> "undefined", v |-> <<>>]
NoOrigin ==
  [kind |-> "none", value |-> <<>>, json |-> NoJSON, t0 |-> 0, salt |-> Undefined,
   keys |-> <<>>, pristine |-> <<>>, tampered |-> "none"]
NoCall ==
  [op |-> "none", res |-> Ok(<<>>), arg |-> <<>>, by |-> Undefined, salt |-> Undefined,
   maxAge |-> [def |-> FALSE, n |-> 0], returnTimestamp |-> FALSE, at |-> 0,
   steps |-> <<>>, work |-> 0]
Call(op, res) ==
  [op |-> op, res |-> res, arg |-> <<>>, by |-> Undefined, salt |-> Undefined,
   maxAge |-> [def |-> FALSE, n |-> 0], returnTimestamp |-> FALSE, at |-> now,
   steps |-> <<>>, work |-> 0]

NoSerializer == [flavour |-> "none"]

\* No call is kept track of.
NoCalls == <<>>

(***************************************************************************)
(* Spec: one Signer instance of either revision, in every key-derivation   *)
(* mode and with every algorithm, signing and unsigning.                   *)
(***************************************************************************)
SignerConfigs ==
  {Signer_new(impl, "Signer", SignerOptions(k, salt, kd, dm, alg)).val :
     impl \in {"async", "sync"}, k \in KeyChoices, salt \in {Undefined, Str(SaltA)},
     kd \in {"undefined", "concat", "hmac", "none"}, dm \in {"undefined", "SHA-256"},
     alg \in {NoAlgorithm, NoneAlgorithm, ReverseAlgorithm}}

Init ==
  /\ signer \in SignerConfigs
  /\ constructed = signer
  /\ serializer = NoSerializer
  /\ now = 0
  /\ token = NoToken
  /\ origin = NoOrigin
  /\ last = NoCall
  /\ calls = NoCalls

\* signer.sign(v)
Sign(v) ==
  LET Made(r) ==
        /\ r.ok
        /\ token' = Buf(r.val)
        /\ origin' = [NoOrigin EXCEPT !.kind = "sign", !.value = v, !.pristine = r.val,
                                      !.t0 = now, !.salt = Buf(signer.salt),
                                      !.keys = signer.secretKeys]
        /\ last' = [Call("sign", r) EXCEPT !.arg = v]
  IN /\ serializer.flavour = "none"
     /\ Made(SignWith(signer, Buf(v), now))
     /\ UNCHANGED <<signer, constructed, serializer, now, calls>>

\* signer.getSignature(v)
GetSignature(v) ==
  /\ last' = [Call("getSignature", getSignature(signer, Buf(v))) EXCEPT !.arg = v]
  /\ UNCHANGED <<signer, constructed, serializer, now, token, origin, calls>>

\* signer.verifySignature(v, sig) with the signature segment of the token
VerifySignature(v) ==
  LET Done(r) ==
        /\ last' = [Call("verifySignature",
                         IF r.ok THEN OkBool(r.val) ELSE Throw(r.err, NoMsg, NoPayload, NoDate))
                      EXCEPT !.arg = v]
        /\ signer' = [signer EXCEPT !.secretKeys = r.keys]
  IN /\ token # NoToken
     /\ Done(verifySignature(signer, Buf(v),
                             Buf(SliceFrom(token.v,
                                           LastIndexOf(token.v, signer.separator[1]) + 1))))
     /\ UNCHANGED <<constructed, serializer, now, token, origin, calls>>

\* signer.unsign(token)
Unsign ==
  LET Done(u) ==
        /\ last' = Call("unsign", u.res)
        /\ signer' = [signer EXCEPT !.secretKeys = u.keys]
  IN /\ token # NoToken
     /\ serializer.flavour = "none"
     /\ signer.cls = "Signer"
     /\ Done(Signer_unsign(signer, token))
     /\ UNCHANGED <<constructed, serializer, now, token, origin, calls>>

\* signer.validate(token)
Validate ==
  LET Done(u) ==
        /\ last' = Call("validate", u.res)
        /\ signer' = [signer EXCEPT !.secretKeys = u.keys]
  IN /\ token # NoToken
     /\ signer.cls = "Signer"
     /\ Done(Signer_validate(signer, token))
     /\ UNCHANGED <<constructed, serializer, now, token, origin, calls>>

\* new Signer({...same options, secretKey: k}).unsign(token)
OtherSignerUnsign(k) ==
  LET other == [constructed EXCEPT !.secretKeys = makeKeysList(k)]
  IN /\ token # NoToken
     /\ last' = [Call("otherUnsign", Signer_unsign(other, token).res) EXCEPT !.by = k]
     /\ UNCHANGED <<signer, constructed, serializer, now, token, origin, calls>>

Next ==
  \/ \E v \in Values : Sign(v)
  \/ \E v \in Values : GetSignature(v)
  \/ \E v \in Values : VerifySignature(v)
  \/ Unsign
  \/ Validate
  \/ \E k \in KeyChoices : OtherSignerUnsign(k)

Spec == Init /\ [][Next]_vars

(***************************************************************************)
(* The timed signer and the serializers: further calls of the caller.      *)
(***************************************************************************)
\* JSON values to serialise: null, booleans, strings (empty, with the
\* separator, with characters to escape, long enough to be deflated), an
\* array and objects.
JSONValues ==
  {JNull, JTrue, JFalse, JString(<<>>), JString(<<97, Dot, 98>>),
   JString(<<34, 92, 10, 233>>), JString([i \in 1..12 |-> 97]),
   JArray(<<JNumber(<<49>>), JString(<<97>>), JNull>>),
   JObject(<<JString(<<97>>), JArray(<<JTrue>>), JString(<<98>>), JObject(<<>>)>>)}

JSONOf(v) == [t |-> "json", v |-> v]

\* maxAge arguments: omitted, or 0 .. MaxAgeBound
MaxAges == {NoMaxAge} \cup {MaxAge(n) : n \in 0..MaxAgeBound}

\* The clock moves (forward, or backward when it is set); the outcome of the
\* last call has been looked at by then.
SetClock(c) ==
  /\ c # now
  /\ now' = c
  /\ last' = NoCall
  /\ UNCHANGED <<signer, constructed, serializer, token, origin, calls>>

\* signer.unsign(token, maxAge, returnTimestamp) on a TimestampSigner
TimedUnsign(maxAge, returnTimestamp) ==
  LET Done(u) ==
        /\ last' = [Call("unsign", u.res) EXCEPT !.maxAge = maxAge,
                                                 !.returnTimestamp = returnTimestamp]
        /\ signer' = [signer EXCEPT !.secretKeys = u.keys]
  IN /\ token # NoToken
     /\ serializer.flavour = "none"
     /\ signer.cls = "TimestampSigner"
     /\ Done(TimestampSigner_unsign(signer, token, maxAge, returnTimestamp, now))
     /\ UNCHANGED <<constructed, serializer, now, token, origin, calls>>

\* signer.validate(token, maxAge) on a TimestampSigner
TimedValidate(maxAge) ==
  LET Done(u) ==
        /\ last' = [Call("validate", u.res) EXCEPT !.maxAge = maxAge]
        /\ signer' = [signer EXCEPT !.secretKeys = u.keys]
  IN /\ token # NoToken
     /\ serializer.flavour = "none"
     /\ signer.cls = "TimestampSigner"
     /\ Done(TimestampSigner_validate(signer, token, maxAge, now))
     /\ UNCHANGED <<constructed, serializer, now, token, origin, calls>>

\* serializer.stringify(object, salt)
Stringify(object, salt) ==
  LET Made(r) ==
        /\ r.ok
        /\ token' = r.val
        /\ origin' = [NoOrigin EXCEPT !.kind = "stringify", !.json = JSONOf(object),
                                      !.value = stringifyPayload(serializer, object),
                                      !.t0 = now, !.salt = salt,
                                      !.keys = serializer.secretKeys,
                                      !.pristine = wantBuffer(r.val)]
        /\ last' = [Call("stringify", Ok(wantBuffer(r.val))) EXCEPT !.salt = salt]
  IN /\ serializer.flavour # "none"
     /\ Made(Serializer_stringify(serializer, object, salt, now))
     /\ UNCHANGED <<signer, constructed, serializer, now, calls>>

\* serializer.parse(token, salt, maxAge, returnTimestamp); the plain
\* serializers take the first two arguments only
Parse(salt, maxAge, returnTimestamp) ==
  /\ token # NoToken
  /\ serializer.flavour # "none"
  /\ IsTimed(serializer.flavour) \/ (maxAge = NoMaxAge /\ ~returnTimestamp)
  /\ last' = [Call("parse", parse(serializer, token, salt, maxAge, returnTimestamp, now))
                EXCEPT !.salt = salt, !.maxAge = maxAge, !.returnTimestamp = returnTimestamp]
  /\ UNCHANGED <<signer, constructed, serializer, now, token, origin, calls>>

(***************************************************************************)
(* SpecTimed: a TimestampSigner, or a timed serializer, under a clock that *)
(* moves between signing and unsigning.                                    *)
(***************************************************************************)
TimedSignerConfigs ==
  {Signer_new(impl, "TimestampSigner", SignerOptions(k, Undefined, kd, "undefined", NoAlgorithm)).val :
     impl \in {"async", "sync"}, k \in {Buf(K1), KeyList(<<Buf(K1), Str(K2)>>)},
     kd \in {"undefined", "none"}}

TimedSerializerConfigs ==
  {Serializer_new(impl, flavour, Buf(K1), Undefined, NoSignerOpts) :
     impl \in {"async", "sync"}, flavour \in {"TimedSerializer", "URLSafeTimedSerializer"}}

TimedValues == {<<118>>, <<97, Dot, 98>>}
TimedJSONValues == {JNull, JString(<<97, Dot, 98>>), JString([i \in 1..12 |-> 97])}

InitTimed ==
  /\ \/ signer \in TimedSignerConfigs /\ serializer = NoSerializer
     \/ serializer \in TimedSerializerConfigs /\ signer = makeSigner(serializer, Undefined)
  /\ constructed = signer
  /\ now = 0
  /\ token = NoToken
  /\ origin = NoOrigin
  /\ last = NoCall
  /\ calls = NoCalls

NextTimed ==
  \/ \E c \in 0..MaxClock : SetClock(c)
  \/ \E v \in TimedValues : Sign(v)
  \/ \E maxAge \in MaxAges, returnTimestamp \in BOOLEAN : TimedUnsign(maxAge, returnTimestamp)
  \/ \E maxAge \in MaxAges : TimedValidate(maxAge)
  \/ \E object \in TimedJSONValues : Stringify(object, Undefined)
  \/ \E maxAge \in MaxAges, returnTimestamp \in BOOLEAN : Parse(Undefined, maxAge, returnTimestamp)

SpecTimed == InitTimed /\ [][NextTimed]_vars

(***************************************************************************)
(* SpecSer: one serializer of each flavour and revision, stringifying JSON *)
(* values and parsing the token, each call with its own salt argument.     *)
(***************************************************************************)
SerializerConfigs ==
  {Serializer_new(impl, flavour, Buf(K1), Undefined, NoSignerOpts) :
     impl \in {"async", "sync"},
     flavour \in {"Serializer", "TimedSerializer", "URLSafeSerializer",
                  "URLSafeTimedSerializer"}}

\* salt arguments: omitted, the empty string, 'a' and 'b'
Salts == {Undefined, Str(<<>>), Str(SaltA), Str(SaltB)}

InitSer ==
  /\ serializer \in SerializerConfigs
  /\ signer = makeSigner(serializer, Undefined)
  /\ constructed = signer
  /\ now \in {0, MaxClock}
  /\ token = NoToken
  /\ origin = NoOrigin
  /\ last = NoCall
  /\ calls = NoCalls

NextSer ==
  \/ \E object \in JSONValues, salt \in Salts : Stringify(object, salt)
  \/ \E salt \in Salts : Parse(salt, NoMaxAge, FALSE)

SpecSer == InitSer /\ [][NextSer]_vars

(***************************************************************************)
(* SpecTamper: a token is signed, one character of it is changed, removed  *)
(* or appended on its way (or its timestamp segment is replaced), and the  *)
(* changed token is given back to unsign / parse.                          *)
(***************************************************************************)
RemoveAt(t, i) == SubSeq(t, 1, i - 1) \o SubSeq(t, i + 1, Len(t))

\* The character after c in the base64url alphabet; any other character + 1.
NextChar(c) ==
  IF SextetOf(c) >= 0 /\ c \notin {43, 47} THEN Sextet((SextetOf(c) + 1) % 62)
  ELSE IF c \in {45, 95} THEN 140 - c
  ELSE c + 1

ToUpperCase(c) == IF c \in 97..122 THEN c - 32 ELSE c
ToggleCase(c) == IF c \in 97..122 THEN c - 32 ELSE IF c \in 65..90 THEN c + 32 ELSE c

\* value <sep> timestamp <sep> signature with the timestamp segment replaced
\* by the encoding of the clock reading t
Retimed(tok, sep, t) ==
  LET Joined(blob, sig) ==
        SliceTo(blob, LastIndexOf(blob, sep[1])) \o sep \o base64Encode(Buf(intToBuffer(t)))
          \o sep \o sig
      Cut(s) == Joined(SliceTo(tok, s), SliceFrom(tok, s + Len(sep)))
  IN Cut(LastIndexOf(tok, sep[1]))

\* s.toUpperCase(), `${s}a`, `a${s.slice(1)}`, s.replace('.', '') of the test
\* suite, extended to every position and to further characters.
TamperKinds == {"remove", "next", "case", "dot", "letter", "upper", "append", "retime"}
AppendChars == {97, 61, 32, 46}

Tampered(kind, t, i, c) ==
  CASE kind = "remove" -> RemoveAt(t, i)
    [] kind = "next" -> [t EXCEPT ![i] = NextChar(t[i])]
    [] kind = "case" -> [t EXCEPT ![i] = ToggleCase(t[i])]
    [] kind = "dot" -> [t EXCEPT ![i] = Dot]
    [] kind = "letter" -> [t EXCEPT ![i] = 97]
    [] kind = "upper" -> [j \in 1..Len(t) |-> ToUpperCase(t[j])]
    [] kind = "append" -> Append(t, c)
    [] kind = "retime" -> Retimed(t, signer.separator, c)

\* The arguments each kind of change takes: a position, or a character.
TamperArgs(kind, t) ==
  CASE kind \in {"remove", "next", "case", "dot", "letter"} -> (1..Len(t)) \X {0}
    [] kind = "upper" -> {<<1, 0>>}
    [] kind = "append" -> {1} \X AppendChars
    [] kind = "retime" ->
         IF signer.cls = "TimestampSigner" THEN {1} \X (0..MaxClock) ELSE {}

Tamper(kind) ==
  /\ token # NoToken
  /\ origin.tampered = "none"
  /\ \E a \in TamperArgs(kind, token.v) :
       /\ Tampered(kind, token.v, a[1], a[2]) # token.v
       /\ token' = [token EXCEPT !.v = Tampered(kind, token.v, a[1], a[2])]
  /\ origin' = [origin EXCEPT !.tampered = kind]
  /\ last' = NoCall
  /\ UNCHANGED <<signer, constructed, serializer, now, calls>>

TamperSignerConfigs ==
  {Signer_new("async", cls, SignerOptions(c[1], Undefined, c[2], "undefined", NoAlgorithm)).val :
     cls \in {"Signer", "TimestampSigner"},
     c \in {<<Buf(K1), "undefined">>, <<KeyList(<<Buf(K1), Str(K2)>>), "none">>}}

TamperSerializerConfigs ==
  {Serializer_new("async", flavour, Buf(K1), Undefined, NoSignerOpts) :
     flavour \in {"Serializer", "TimedSerializer", "URLSafeSerializer",
                  "URLSafeTimedSerializer"}}

InitTamper ==
  /\ \/ signer \in TamperSignerConfigs /\ serializer = NoSerializer
     \/ serializer \in TamperSerializerConfigs /\ signer = makeSigner(serializer, Undefined)
  /\ constructed = signer
  /\ now \in {0, MaxClock}
  /\ token = NoToken
  /\ origin = NoOrigin
  /\ last = NoCall
  /\ calls = NoCalls

NextTamper ==
  \/ \E v \in TimedValues : Sign(v)
  \/ \E object \in {JNull, JString([i \in 1..12 |-> 97])} : Stringify(object, Undefined)
  \/ \E kind \in TamperKinds : Tamper(kind)
  \/ Unsign
  \/ \E maxAge \in MaxAges : TimedUnsign(maxAge, FALSE)
  \/ Parse(Undefined, NoMaxAge, FALSE)

SpecTamper == InitTamper /\ [][NextTamper]_vars

\* serializer.parse(token, salt, maxAge) with the calls it makes on the way
ParseLogged(salt, maxAge) ==
  /\ token # NoToken
  /\ serializer.flavour # "none"
  /\ IsTimed(serializer.flavour) \/ maxAge = NoMaxAge
  /\ last' = [Call("parse", parse(serializer, token, salt, maxAge, FALSE, now))
                EXCEPT !.salt = salt, !.maxAge = maxAge,
                       !.steps = parseSteps(serializer, token, salt, maxAge, now)]
  /\ UNCHANGED <<signer, constructed, serializer, now, token, origin, calls>>

\* serializer.parseUnsafe(token, salt, maxAge)
ParseUnsafe(salt, maxAge) ==
  /\ token # NoToken
  /\ serializer.flavour # "none"
  /\ IsTimed(serializer.flavour) \/ maxAge = NoMaxAge
  /\ last' = [Call("parseUnsafe", parseUnsafe(serializer, token, salt, maxAge, now))
                EXCEPT !.salt = salt, !.maxAge = maxAge,
                       !.steps = parseUnsafeSteps(serializer, token, salt, maxAge, now)]
  /\ UNCHANGED <<signer, constructed, serializer, now, token, origin, calls>>

\* serializer.makeSigner().sign(payload): a token whose signature is good
\* and whose payload is whatever the caller passed
SignPayload(payload) ==
  LET Made(r) ==
        /\ r.ok
        /\ token' = Buf(r.val)
        /\ origin' = [NoOrigin EXCEPT !.kind = "signPayload", !.value = payload,
                                      !.t0 = now, !.keys = serializer.secretKeys,
                                      !.pristine = r.val]
        /\ last' = Call("sign", r)
  IN /\ serializer.flavour # "none"
     /\ Made(SignWith(makeSigner(serializer, Undefined), Buf(payload), now))
     /\ UNCHANGED <<signer, constructed, serializer, now, calls>>

\* A token that the base Signer of the same key and salt signed over blob
\* ("forged"), the same with a signature that does not match
\* ("forgedBadSig"), or blob alone without a signature segment ("bare").
ForgeKinds == {"forged", "forgedBadSig", "bare"}

Forged(how, blob, sep, signature) ==
  CASE how = "forged" -> blob \o sep \o signature
    [] how = "forgedBadSig" -> blob \o sep \o [signature EXCEPT ![1] = NextChar(signature[1])]
    [] how = "bare" -> blob

Forge(how, blob) ==
  LET Made(r) ==
        /\ r.ok
        /\ token' = Buf(Forged(how, blob, signer.separator, r.val))
        /\ origin' = [NoOrigin EXCEPT !.kind = how, !.value = blob, !.t0 = now,
                                      !.keys = signer.secretKeys,
                                      !.pristine = Forged(how, blob, signer.separator, r.val)]
        /\ last' = Call("forge", r)
  IN /\ Made(getSignature([signer EXCEPT !.cls = "Signer"], Buf(blob)))
     /\ UNCHANGED <<signer, constructed, serializer, now, calls>>

(***************************************************************************)
(* SpecUnsafe: a serializer is given tokens it made, tokens whose payload  *)
(* was signed as it is, and tokens signed by the base Signer, under the    *)
(* salt they were signed with and under another, through parse and         *)
(* parseUnsafe.                                                            *)
(***************************************************************************)
\* 'nul', 'null', 'bnVsb', 'bnVsbA' (base64url of 'null') and '.AAAA'
RawPayloads ==
  {<<110, 117, 108>>, <<110, 117, 108, 108>>, <<98, 110, 86, 115, 98>>,
   <<98, 110, 86, 115, 98, 65>>, <<Dot, 65, 65, 65, 65>>}

\* 'bnVsbA' <sep> the timestamp 2^64 - 1, of which no Date can be made
LatePayload == <<98, 110, 86, 115, 98, 65, Dot>> \o base64Encode(Buf([i \in 1..8 |-> 255]))

InitUnsafe ==
  /\ serializer \in SerializerConfigs
  /\ signer = makeSigner(serializer, Undefined)
  /\ constructed = signer
  /\ now = 0
  /\ token = NoToken
  /\ origin = NoOrigin
  /\ last = NoCall
  /\ calls = NoCalls

NextUnsafe ==
  \/ \E c \in {0, MaxClock} : SetClock(c)
  \/ \E object \in TimedJSONValues : Stringify(object, Undefined)
  \/ \E payload \in RawPayloads : SignPayload(payload)
  \/ Forge("forged", LatePayload)
  \/ \E salt \in {Undefined, Str(SaltA)}, maxAge \in {NoMaxAge, MaxAge(0)} :
       ParseLogged(salt, maxAge)
  \/ \E salt \in {Undefined, Str(SaltA)}, maxAge \in {NoMaxAge, MaxAge(0)} :
       ParseUnsafe(salt, maxAge)

SpecUnsafe == InitUnsafe /\ [][NextUnsafe]_vars

(***************************************************************************)
(* SpecForged: a TimestampSigner is given tokens that the base Signer of   *)
(* the same key and salt signed, with a good or a bad signature, or that   *)
(* nobody signed: values without a timestamp segment and with timestamp    *)
(* segments that are not base64, too long, or no date.                     *)
(***************************************************************************)
\* 'v', 'v.!', 'v.A', 'v.' with 9 bytes, 'v.' with 2^64 - 1, 'v.AQ' (1)
ForgedBlobs ==
  {<<118>>, <<118, Dot, 33>>, <<118, Dot, 65>>,
   <<118, Dot>> \o base64Encode(Buf([i \in 1..9 |-> 1])),
   <<118, Dot>> \o base64Encode(Buf([i \in 1..8 |-> 255])),
   <<118, Dot, 65, 81>>}

InitForged ==
  /\ signer \in TimedSignerConfigs
  /\ serializer = NoSerializer
  /\ constructed = signer
  /\ now = 0
  /\ token = NoToken
  /\ origin = NoOrigin
  /\ last = NoCall
  /\ calls = NoCalls

NextForged ==
  \/ \E c \in {0, MaxClock} : SetClock(c)
  \/ \E how \in ForgeKinds, blob \in ForgedBlobs : Forge(how, blob)
  \/ \E maxAge \in MaxAges, returnTimestamp \in BOOLEAN : TimedUnsign(maxAge, returnTimestamp)

SpecForged == InitForged /\ [][NextForged]_vars

(***************************************************************************)
(* SpecCodec: the payload transform of the URL-safe serializers as a pure  *)
(* function.  A payload is drawn, encodePayload is applied to it and       *)
(* decodePayload to the outcome; the URL-safe serializers stringify and    *)
(* parse a tiny value and a repetitive one.                                *)
(***************************************************************************)
MaxPayloadLen == 3
MaxRun == 16

PayloadBytes == {0, Dot, 97, 255}

RECURSIVE SeqsUpTo(_, _)
SeqsUpTo(S, n) ==
  IF n = 0 THEN {<<>>}
  ELSE SeqsUpTo(S, n - 1) \cup {Append(q, x) : q \in {r \in SeqsUpTo(S, n - 1) : Len(r) = n - 1}, x \in S}

\* Short byte sequences, runs of 'a', and the JSON texts of strings of 'a'
CodecPayloads ==
  SeqsUpTo(PayloadBytes, MaxPayloadLen)
    \cup {[i \in 1..n |-> 97] : n \in 4..MaxRun}
    \cup {<<34>> \o [i \in 1..n |-> 97] \o <<34>> : n \in 0..MaxRun}

URLSafeConfigs ==
  {c \in SerializerConfigs : c.flavour \in {"URLSafeSerializer", "URLSafeTimedSerializer"}}

InitCodec ==
  /\ serializer \in URLSafeConfigs
  /\ signer = makeSigner(serializer, Undefined)
  /\ constructed = signer
  /\ now = 0
  /\ token \in {Buf(b) : b \in CodecPayloads}
  /\ origin = [NoOrigin EXCEPT !.kind = "payload", !.value = token.v]
  /\ last = NoCall
  /\ calls = NoCalls

\* encodePayload(json)
EncodePayload ==
  /\ origin.kind = "payload"
  /\ last.op = "none"
  /\ token' = Buf(encodePayload(token.v))
  /\ last' = [Call("encodePayload", Ok(encodePayload(token.v))) EXCEPT !.arg = token.v]
  /\ UNCHANGED <<signer, constructed, serializer, now, origin, calls>>

\* decodePayload(payload) on what encodePayload returned
DecodePayload ==
  /\ origin.kind = "payload"
  /\ last.op = "encodePayload"
  /\ last' = [Call("decodePayload", decodePayload(serializer.impl, token.v))
                EXCEPT !.arg = token.v]
  /\ UNCHANGED <<signer, constructed, serializer, now, token, origin, calls>>

NextCodec ==
  \/ EncodePayload
  \/ DecodePayload
  \/ \E object \in TimedJSONValues : Stringify(object, Undefined)
  \/ Parse(Undefined, NoMaxAge, FALSE)

SpecCodec == InitCodec /\ [][NextCodec]_vars

(***************************************************************************)
(* SpecSep: Signer and TimestampSigner instances are constructed with      *)
(* separators of one and two characters, inside and outside the base64url  *)
(* alphabet; the instances that exist sign values and unsign the tokens    *)
(* they made, tokens with a broken signature and texts without signature.  *)
(***************************************************************************)
\* '.', '-', '=', 'ab', '.a', '..', '.:' and ':.'
Separators ==
  {<<Dot>>, <<45>>, <<61>>, <<97, 98>>, <<Dot, 97>>, <<Dot, Dot>>, <<Dot, 58>>, <<58, Dot>>}

\* 'v', 'v.' and 'a.b'
SepValues == {<<118>>, <<118, Dot>>, <<97, Dot, 98>>}

SepOptions(separator) ==
  [SignerOptions(Buf(K1), Undefined, "undefined", "undefined", NoAlgorithm)
     EXCEPT !.separator = separator]

InitSep ==
  /\ signer \in {Signer_new(impl, cls, SepOptions(Undefined)).val :
                   impl \in {"async", "sync"}, cls \in {"Signer", "TimestampSigner"}}
  /\ constructed = signer
  /\ serializer = NoSerializer
  /\ now = 0
  /\ token = NoToken
  /\ origin = NoOrigin
  /\ last = NoCall
  /\ calls = NoCalls

\* new Signer({secretKey, separator}) / new TimestampSigner({secretKey, separator});
\* the instance of the model is replaced when the constructor returns.
Construct(separator) ==
  LET Made(r) ==
        /\ last' = [Call("new", IF r.ok THEN OkBool(TRUE) ELSE r) EXCEPT !.arg = separator]
        /\ signer' = IF r.ok THEN r.val ELSE signer
        /\ constructed' = IF r.ok THEN r.val ELSE constructed
        /\ token' = IF r.ok THEN NoToken ELSE token
        /\ origin' = IF r.ok THEN NoOrigin ELSE origin
  IN /\ serializer.flavour = "none"
     /\ Made(Signer_new(signer.impl, signer.cls, SepOptions(Str(separator))))
     /\ UNCHANGED <<serializer, now, calls>>

NextSep ==
  \/ \E separator \in Separators : Construct(separator)
  \/ \E v \in SepValues : Sign(v)
  \/ \E how \in ForgeKinds, blob \in SepValues : Forge(how, blob)
  \/ Unsign
  \/ TimedUnsign(NoMaxAge, FALSE)

SpecSep == InitSep /\ [][NextSep]_vars

(***************************************************************************)
(* SpecInt: the integer codec as a pure function.  An integer of up to 64  *)
(* bits is drawn, intToBuffer is applied to it and bufferToInt to the      *)
(* outcome.                                                                *)
(***************************************************************************)
\* The 16-bit limbs tried: 0, 1, 255, 256 and 65535
LimbValues == {0, 1, 255, 256, 65535}

Integers64 == {<<a, b, c, d>> : a \in LimbValues, b \in LimbValues, c \in LimbValues, d \in LimbValues}

InitInt ==
  /\ signer \in {Signer_new("async", "TimestampSigner", SepOptions(Undefined)).val}
  /\ constructed = signer
  /\ serializer = NoSerializer
  /\ now = 0
  /\ token = NoToken
  /\ origin \in {[NoOrigin EXCEPT !.kind = "integer", !.value = n] : n \in Integers64}
  /\ last = NoCall
  /\ calls = NoCalls

\* intToBuffer(n)
IntToBuffer ==
  /\ origin.kind = "integer"
  /\ last.op = "none"
  /\ token' = Buf(intToBufferBig(origin.value))
  /\ last' = [Call("intToBuffer", Ok(intToBufferBig(origin.value))) EXCEPT !.arg = origin.value]
  /\ UNCHANGED <<signer, constructed, serializer, now, origin, calls>>

\* bufferToInt(buffer) on what intToBuffer returned
BufferToInt ==
  LET Read(r) == IF r.ok THEN Ok(r.val) ELSE Throw("RangeError", NoMsg, NoPayload, NoDate)
  IN /\ origin.kind = "integer"
     /\ last.op = "intToBuffer"
     /\ last' = [Call("bufferToInt", Read(bufferToIntBig(token.v))) EXCEPT !.arg = token.v]
     /\ UNCHANGED <<signer, constructed, serializer, now, token, origin, calls>>

NextInt ==
  \/ IntToBuffer
  \/ BufferToInt

SpecInt == InitInt /\ [][NextInt]_vars

(***************************************************************************)
(* SpecCompare: the verifySignature of the signing algorithms is given     *)
(* the expected signature, signatures of the same length that differ from  *)
(* it in their first, a middle or their last byte, and shorter ones.       *)
(***************************************************************************)
CompareConfigs ==
  {Signer_new(impl, "Signer", SignerOptions(k, Undefined, kd, "undefined", alg)).val :
     impl \in {"async", "sync"}, k \in {Buf(K1), Buf(K2)}, kd \in {"undefined", "none"},
     alg \in {NoAlgorithm, ReverseAlgorithm, AbstractAlgorithm}}

InitCompare ==
  /\ signer \in CompareConfigs
  /\ constructed = signer
  /\ serializer = NoSerializer
  /\ now = 0
  /\ token = NoToken
  /\ origin = NoOrigin
  /\ last = NoCall
  /\ calls = NoCalls

SuppliedKinds == {"same", "first", "middle", "last", "short", "empty"}

\* The signature given to verifySignature, made from the expected one.
Supplied(kind, expectedSig) ==
  LET Flip(i) == [expectedSig EXCEPT ![i] = (expectedSig[i] + 1) % 256]
  IN CASE kind = "same" -> expectedSig
       [] kind = "first" -> Flip(1)
       [] kind = "middle" -> Flip((Len(expectedSig) + 1) \div 2)
       [] kind = "last" -> Flip(Len(expectedSig))
       [] kind = "short" -> SubSeq(expectedSig, 1, Len(expectedSig) - 1)
       [] kind = "empty" -> <<>>

\* this.algorithm.verifySignature(key, 'v', sig) with the key the signer
\* derives; origin keeps the expected signature, token the one supplied.
AlgorithmVerify(kind) ==
  LET Done(sig, expected, r) ==
        /\ token' = Buf(sig)
        /\ origin' = [NoOrigin EXCEPT !.kind = kind, !.value = <<118>>,
                                      !.pristine = IF expected.ok THEN expected.val ELSE <<>>]
        /\ last' = [Call("algorithm.verifySignature",
                         IF r.threw THEN Throw("Error", NoMsg, NoPayload, NoDate)
                         ELSE OkBool(r.val))
                      EXCEPT !.arg = sig, !.work = r.work]
      With(key, expected) ==
        Done(IF expected.ok THEN Supplied(kind, expected.val) ELSE <<1, 2, 3>>, expected,
             Algorithm_verifySignatureWork(signer.impl, signer.algorithm, key,
                                           <<118>>,
                                           IF expected.ok THEN Supplied(kind, expected.val)
                                           ELSE <<1, 2, 3>>))
      Keyed(key) == With(key, Algorithm_getSignature(signer.algorithm, key, <<118>>))
  IN /\ Keyed(deriveKey(signer, Undefined).val)
     /\ UNCHANGED <<signer, constructed, serializer, now, calls>>

NextCompare == \E kind \in SuppliedKinds : AlgorithmVerify(kind)

SpecCompare == InitCompare /\ [][NextCompare]_vars

(***************************************************************************)
(* SpecDerive: signers of every key-derivation mode, over salts and        *)
(* secrets of which some concatenate to the same text, sign a value; a     *)
(* signer of the same mode with another salt or secret unsigns the token.  *)
(***************************************************************************)
\* 'a', 'ab' and 'asigner'
DeriveSalts == {<<97>>, <<97, 98>>, <<97>> \o txtSigner}

\* 'c', 'bc', 'b' and 'signerb'
DeriveSecrets == {<<99>>, <<98, 99>>, <<98>>, txtSigner \o <<98>>}

DeriveConfigs ==
  {Signer_new(impl, "Signer", SignerOptions(Buf(k), Buf(salt), kd, "undefined", NoAlgorithm)).val :
     impl \in {"async", "sync"}, k \in DeriveSecrets, salt \in DeriveSalts,
     kd \in {"concat", "django-concat", "hmac", "none"}}

InitDerive ==
  /\ signer \in DeriveConfigs
  /\ constructed = signer
  /\ serializer = NoSerializer
  /\ now = 0
  /\ token = NoToken
  /\ origin = NoOrigin
  /\ last = NoCall
  /\ calls = NoCalls

\* new Signer({secretKey: k, salt, keyDerivation}).unsign(token): a signer
\* of the same mode with its own salt and secret is given the token
OtherContextUnsign(salt, k) ==
  LET Done(r) == last' = [Call("otherUnsign", r.res) EXCEPT !.by = Buf(k), !.salt = Buf(salt)]
  IN /\ token # NoToken
     /\ Done(Signer_unsign([constructed EXCEPT !.secretKeys = <<k>>, !.salt = salt], token))
     /\ UNCHANGED <<signer, constructed, serializer, now, token, origin, calls>>

NextDerive ==
  \/ Sign(<<118>>)
  \/ \E salt \in DeriveSalts, k \in DeriveSecrets : OtherContextUnsign(salt, k)

SpecDerive == InitDerive /\ [][NextDerive]_vars

(***************************************************************************)
(* SpecAsync: two calls of the async revision in flight on one instance.   *)
(* A call runs from one await to the next in one step: it is suspended     *)
(* while deriveKey awaits the digest ("deriveKey"), while the algorithm    *)
(* awaits the HMAC ("algorithm"), and while its caller awaits the settled  *)
(* unsign ("settle").  Between two steps of a call the other call may run  *)
(* and the clock may move.  A step reads the instance fields it uses from  *)
(* the instance as it is then; a serializer call works on the signer that  *)
(* makeSigner built when the call began.                                   *)
(***************************************************************************)
CallIds == {1, 2}

Suspended == {"deriveKey", "algorithm", "settle"}

NoFrame ==
  [op |-> "idle", pc |-> "idle", shared |-> TRUE, own |-> NoSerializer, arg |-> Buf(<<>>),
   object |-> JNull, salt |-> Undefined, maxAge |-> NoMaxAge, returnTimestamp |-> FALSE,
   value |-> <<>>, sep |-> <<>>, key |-> <<>>, sig |-> <<>>, i |-> 0, verdict |-> FALSE,
   sup |-> Ok(<<>>), res |-> Ok(<<>>), at |-> 0, met |-> FALSE]

\* `this` of the call
This(f) == IF f.shared THEN signer ELSE f.own

\* this.secretKeys.reverse(): the array of the instance is reversed in place
secretKeysReversed(this) == Reverse(this.secretKeys)

\* for (const secretKey of this.secretKeys): the loop walks the array of
\* the instance and leaves it as it is.
secretKeysWalked(this) == this.secretKeys

\* sign up to the await in deriveKey: TimestampSigner.sign reads the clock
\* and the separator first
signStart(this, f, value, clock) ==
  LET Started(newValue, key) ==
        [f EXCEPT !.pc = "deriveKey", !.value = newValue, !.sep = this.separator,
                  !.key = key.val, !.at = clock]
  IN Started(IF this.cls = "TimestampSigner"
             THEN value \o this.separator \o base64Encode(Buf(intToBuffer(clock)))
             ELSE value,
             deriveKey(this, Undefined))

\* unsign up to the first await: the split, the decoding of the signature
\* and deriveKey for the first key
unsignStart(this, f, signedValue, clock) ==
  LET Verify(value, decodedSig) ==
        IF ~decodedSig.ok
        THEN [f EXCEPT !.pc = "settle", !.value = value,
                       !.sup = Throw("BadSignatureError",
                                     Msg("Invalid signature for the provided value."),
                                     Payload(value), NoDate)]
        ELSE [f EXCEPT !.pc = "deriveKey", !.value = value, !.sig = decodedSig.val,
                       !.i = 1,
                       !.key = deriveKey(this, Buf(secretKeysWalked(this)[1])).val]
      Split(signedBuffer, separatorIndex) ==
        IF separatorIndex = -1
        THEN [f EXCEPT !.pc = "settle",
                       !.sup = Throw("BadSignatureError", Msg("Separator not found in value"),
                                     Payload(signedBuffer), NoDate)]
        ELSE Verify(SliceTo(signedBuffer, separatorIndex),
                    base64Decode(Buf(SliceFrom(signedBuffer,
                                               separatorIndex + Len(this.separator)))))
  IN Split(wantBuffer(signedValue), LastIndexOf(wantBuffer(signedValue), this.separator[1]))

IsSigning(f) == f.op \in {"sign", "stringify"}

\* After the digest: the algorithm is asked for the signature, or to verify
afterDeriveKey(this, f) ==
  IF IsSigning(f)
  THEN [f EXCEPT !.pc = "algorithm",
                 !.sig = Algorithm_getSignature(this.algorithm, f.key, f.value).val]
  ELSE [f EXCEPT !.pc = "algorithm",
                 !.verdict = Algorithm_verifySignature(this.algorithm, f.key, f.value, f.sig)]

\* After the HMAC: sign returns; verifySignature returns true, goes on to
\* the next key of this.secretKeys, or returns false
afterAlgorithm(this, f) ==
  LET Signed(signed) ==
        [f EXCEPT !.pc = "done",
                  !.res = IF f.op = "stringify" THEN Ok(Str(TextDecode(signed)))
                          ELSE Ok(signed)]
  IN IF IsSigning(f)
     THEN Signed(f.value
                 \o (IF this.cls = "TimestampSigner" THEN f.sep ELSE this.separator)
                 \o base64Encode(Buf(f.sig)))
     ELSE IF f.verdict
     THEN [f EXCEPT !.pc = "settle", !.sup = Ok(f.value)]
     ELSE IF f.i < Len(this.secretKeys)
     THEN [f EXCEPT !.pc = "deriveKey", !.i = f.i + 1,
                    !.key = deriveKey(this, Buf(this.secretKeys[f.i + 1])).val]
     ELSE [f EXCEPT !.pc = "settle",
                    !.sup = Throw("BadSignatureError",
                                  Msg("Invalid signature for the provided value."),
                                  Payload(f.value), NoDate)]

\* After Signer.unsign has settled: the rest of TimestampSigner.unsign, of
\* validate and of Serializer.parse
afterUnsign(this, f, clock) ==
  LET Timed(sup) ==
        IF this.cls = "TimestampSigner"
        THEN unsignTimedSettled(this, [res |-> sup, keys |-> this.secretKeys], f.maxAge,
                                f.returnTimestamp, clock).res
        ELSE sup
      Returned(u) ==
        CASE f.op = "unsign" -> u
          [] f.op = "validate" ->
               IF u.ok THEN OkBool(TRUE)
               ELSE IF this.cls = "TimestampSigner" \/ IsBadSignatureError(u.err)
               THEN OkBool(FALSE)
               ELSE u
          [] f.op = "parse" -> IF ~u.ok THEN u ELSE parsePayload(serializer, u.val)
  IN [f EXCEPT !.pc = "done", !.at = clock, !.res = Returned(Timed(f.sup))]

\* The frames once call c has run a step: the calls it found suspended have
\* met another call.
Stepped(c, f) ==
  [d \in CallIds |->
     IF d = c THEN [f EXCEPT !.met = f.met \/ \E e \in CallIds \ {c} : calls[e].pc \in Suspended]
     ELSE IF calls[d].pc \in Suspended THEN [calls[d] EXCEPT !.met = TRUE]
     ELSE calls[d]]

AsyncSignerConfigs ==
  {Signer_new("async", cls, SignerOptions(k, Undefined, "undefined", "undefined", NoAlgorithm)).val :
     cls \in {"Signer", "TimestampSigner"}, k \in {Buf(K1), KeyList(<<Buf(K1), Str(K2)>>)}}

AsyncSerializerConfigs ==
  {Serializer_new("async", flavour, KeyList(<<Buf(K1), Str(K2)>>), Undefined, NoSignerOpts) :
     flavour \in {"Serializer"}}

\* How far the clock moves while calls are in flight.
MaxTicks == 1

\* What a call is given as the token: the token at hand, or that token with
\* the last character of its signature changed.
Given(how) ==
  IF how = "token" THEN token
  ELSE Buf([token.v EXCEPT ![Len(token.v)] = NextChar(token.v[Len(token.v)])])

\* The unsigning calls made: [op, maxAge, returnTimestamp]
UnsignCalls(cls) ==
  IF cls = "TimestampSigner"
  THEN {<<"unsign", NoMaxAge, FALSE>>, <<"unsign", MaxAge(0), TRUE>>,
        <<"validate", MaxAge(0), FALSE>>}
  ELSE {<<"unsign", NoMaxAge, FALSE>>, <<"validate", NoMaxAge, FALSE>>}

InitAsync ==
  /\ \/ signer \in AsyncSignerConfigs /\ serializer = NoSerializer
     \/ serializer \in AsyncSerializerConfigs /\ signer = makeSigner(serializer, Undefined)
  /\ constructed = signer
  /\ now = 0
  /\ token = NoToken
  /\ origin = NoOrigin
  /\ last = NoCall
  /\ calls = [c \in CallIds |-> NoFrame]

\* The clock moves on.
Tick ==
  /\ now < MaxTicks
  /\ now' = now + 1
  /\ UNCHANGED <<signer, constructed, serializer, token, origin, last, calls>>

\* signer.sign(v) is called
BeginSign(c, v) ==
  /\ serializer.flavour = "none"
  /\ calls[c].pc = "idle"
  /\ calls' = Stepped(c, signStart(signer, [NoFrame EXCEPT !.op = "sign", !.arg = Buf(v)],
                                   v, now))
  /\ UNCHANGED <<signer, constructed, serializer, now, token, origin, last>>

\* signer.unsign(token, maxAge, returnTimestamp) or signer.validate(token,
\* maxAge) is called; the plain Signer takes the token only
BeginUnsign(c, how, call) ==
  /\ serializer.flavour = "none"
  /\ token # NoToken
  /\ calls[c].pc = "idle"
  /\ call \in UnsignCalls(signer.cls)
  /\ calls' = Stepped(c, unsignStart(signer,
                                     [NoFrame EXCEPT !.op = call[1], !.arg = Given(how),
                                                     !.maxAge = call[2],
                                                     !.returnTimestamp = call[3]],
                                     Given(how), now))
  /\ signer' = [signer EXCEPT !.secretKeys = secretKeysWalked(signer)]
  /\ UNCHANGED <<constructed, serializer, now, token, origin, last>>

\* serializer.stringify(object, salt) is called
BeginStringify(c, object, salt) ==
  LET Made(own) ==
        calls' = Stepped(c, signStart(own,
                                      [NoFrame EXCEPT !.op = "stringify", !.shared = FALSE,
                                                      !.own = own, !.object = object,
                                                      !.salt = salt],
                                      stringifyPayload(serializer, object), now))
  IN /\ serializer.flavour # "none"
     /\ calls[c].pc = "idle"
     /\ Made(makeSigner(serializer, salt))
     /\ UNCHANGED <<signer, constructed, serializer, now, token, origin, last>>

\* serializer.parse(token, salt) is called
BeginParse(c, salt) ==
  LET Made(own) ==
        calls' = Stepped(c, unsignStart(own,
                                        [NoFrame EXCEPT !.op = "parse", !.shared = FALSE,
                                                        !.own = own, !.arg = token,
                                                        !.salt = salt],
                                        token, now))
  IN /\ serializer.flavour # "none"
     /\ token # NoToken
     /\ calls[c].pc = "idle"
     /\ Made(makeSigner(serializer, salt))
     /\ UNCHANGED <<signer, constructed, serializer, now, token, origin, last>>

\* The digest that deriveKey awaited is there.
ResumeDeriveKey(c) ==
  /\ calls[c].pc = "deriveKey"
  /\ calls' = Stepped(c, afterDeriveKey(This(calls[c]), calls[c]))
  /\ UNCHANGED <<signer, constructed, serializer, now, token, origin, last>>

\* The HMAC that the algorithm awaited is there.
ResumeAlgorithm(c) ==
  /\ calls[c].pc = "algorithm"
  /\ calls' = Stepped(c, afterAlgorithm(This(calls[c]), calls[c]))
  /\ UNCHANGED <<signer, constructed, serializer, now, token, origin, last>>

\* Signer.unsign has settled and its caller goes on.
ResumeUnsign(c) ==
  /\ calls[c].pc = "settle"
  /\ calls' = Stepped(c, afterUnsign(This(calls[c]), calls[c], now))
  /\ UNCHANGED <<signer, constructed, serializer, now, token, origin, last>>

\* The caller takes the outcome of a call; a token that was made is the
\* token later calls are given.
Return(c) ==
  /\ calls[c].pc = "done"
  /\ calls' = [calls EXCEPT ![c] = NoFrame]
  /\ token' = IF ~calls[c].res.ok THEN token
              ELSE IF calls[c].op = "sign" THEN Buf(calls[c].res.val)
              ELSE IF calls[c].op = "stringify" THEN calls[c].res.val
              ELSE token
  /\ UNCHANGED <<signer, constructed, serializer, now, origin, last>>

NextAsync ==
  \/ Tick
  \/ \E c \in CallIds : BeginSign(c, <<118>>)
  \/ \E c \in CallIds, how \in {"token", "altered"},
        call \in UnsignCalls("Signer") \cup UnsignCalls("TimestampSigner") :
          BeginUnsign(c, how, call)
  \/ \E c \in CallIds : BeginStringify(c, JNull, Undefined)
  \/ \E c \in CallIds, salt \in {Undefined, Str(SaltA)} : BeginParse(c, salt)
  \/ \E c \in CallIds : ResumeDeriveKey(c)
  \/ \E c \in CallIds : ResumeAlgorithm(c)
  \/ \E c \in CallIds : ResumeUnsign(c)
  \/ \E c \in CallIds : Return(c)

SpecAsync == InitAsync /\ [][NextAsync]_vars

(***************************************************************************)
(* SpecExpiry: a TimestampSigner under a clock that never goes back.  One  *)
(* token is made, signed now or stamped with a later second, and unsigned  *)
(* again and again as the clock moves on; calls holds, for each maxAge     *)
(* under which the token has been found too old, the second of the first   *)
(* such call.                                                              *)
(***************************************************************************)
\* 'v' <sep> the timestamp 2: a token stamped ahead of the clock
AheadBlob == <<118, Dot>> \o base64Encode(Buf(intToBuffer(2)))

TooOld(res) ==
  /\ ~res.ok
  /\ res.err = "SignatureExpiredError"
  /\ res.msg.text = "Signature age {age} > {maxAge} seconds"

InitExpiry ==
  /\ signer \in TimedSignerConfigs
  /\ constructed = signer
  /\ serializer = NoSerializer
  /\ now = 0
  /\ token = NoToken
  /\ origin = NoOrigin
  /\ last = NoCall
  /\ calls = {}

\* The clock moves on to a later second.
ClockAdvance(c) ==
  /\ c > now
  /\ now' = c
  /\ UNCHANGED <<signer, constructed, serializer, token, origin, last, calls>>

\* signer.sign(v), once
SignOnce(v) == token = NoToken /\ Sign(v)

\* A token signed by the same key whose timestamp is ahead of the clock
StampAhead == token = NoToken /\ Forge("forged", AheadBlob)

\* signer.unsign(token, maxAge); a maxAge under which the token is found too
\* old is noted
UnsignAgain(maxAge) ==
  LET Done(u) ==
        /\ last' = [Call("unsign", u.res) EXCEPT !.maxAge = maxAge]
        /\ signer' = [signer EXCEPT !.secretKeys = u.keys]
        /\ calls' = IF TooOld(u.res) /\ \A e \in calls : e.maxAge # maxAge
                    THEN calls \cup {[maxAge |-> maxAge, at |-> now]}
                    ELSE calls
  IN /\ token # NoToken
     /\ Done(TimestampSigner_unsign(signer, token, maxAge, FALSE, now))
     /\ UNCHANGED <<constructed, serializer, now, token, origin>>

NextExpiry ==
  \/ \E c \in 1..MaxClock : ClockAdvance(c)
  \/ SignOnce(<<118>>)
  \/ StampAhead
  \/ \E maxAge \in MaxAges : UnsignAgain(maxAge)

SpecExpiry == InitExpiry /\ [][NextExpiry]_vars

(***************************************************************************)
(* The claims.                                                             *)
(***************************************************************************)
\* The separator-free signature segment of a token made by sign.
SigSegment(tok, sep) == SliceFrom(tok, LastIndexOf(tok, sep[1]) + Len(sep))

SignatureUnder(s, ks, v) ==
  base64Encode(Buf(Algorithm_getSignature(s.algorithm, deriveKey(s, Buf(Last(ks))).val, v).val))

\* C5: key rotation.  A token signed by a Signer configured with [k1, k2]
\* carries the signature of the newest key k2 and is accepted by a Signer
\* configured with [k1, k2] and by one configured with [k2] alone; a token
\* signed by a Signer configured with k1 alone is accepted by a Signer
\* configured with [k1, k2].  A Signer accepts a token exactly when one of
\* its keys gives the token's signature.
C5_KeyRotation ==
  /\ last.op = "sign" =>
       SigSegment(token.v, signer.separator)
         = SignatureUnder(constructed, constructed.secretKeys, origin.value)
  /\ (last.op = "otherUnsign" /\ origin.kind = "sign") =>
       LET by == makeKeysList(last.by)
       IN /\ (constructed.secretKeys = <<K1, K2>> /\ by \in {<<K1, K2>>, <<K2>>}) => last.res.ok
          /\ (constructed.secretKeys = <<K1>> /\ by = <<K1, K2>>) => last.res.ok
          /\ last.res.ok <=>
               \E i \in 1..Len(by) :
                 base64Decode(Buf(SigSegment(token.v, signer.separator))).val
                   = Algorithm_getSignature(constructed.algorithm,
                                            deriveKey(constructed, Buf(by[i])).val,
                                            origin.value).val

\* C5 on the async revision alone.
C5_KeyRotationAsync == signer.impl = "async" => C5_KeyRotation

\* C6: no call changes the configuration.  The instance keeps the fields its
\* constructor set (the secret keys in their order, salt, separator, key
\* derivation, digest method), so the last configured secret stays the
\* signing key and sign(v) keeps returning the token of the fresh instance.
C6_ConfigurationImmutable ==
  /\ signer = constructed
  /\ last.op = "sign" => token.v = Signer_sign(constructed, Buf(origin.value)).val

C6_ConfigurationImmutableAsync == signer.impl = "async" => C6_ConfigurationImmutable

\* Whole seconds between the signing of the token in flight and the last call.
Elapsed == last.at - origin.t0

\* The last call was unsign on the TimestampSigner that signed the token.
TimedUnsignCase ==
  last.op = "unsign" /\ origin.kind = "sign" /\ signer.cls = "TimestampSigner"

\* The last call was parse on the timed serializer that made the token.
TimedParseCase ==
  last.op = "parse" /\ origin.kind = "stringify" /\ IsTimed(serializer.flavour)

\* SignatureExpiredError('Signature age {t-t0} > {m} seconds', value, Date(t0))
ExpiredError(value) ==
  Throw("SignatureExpiredError",
        [text |-> "Signature age {age} > {maxAge} seconds", age |-> Elapsed,
         maxAge |-> last.maxAge.n, wide |-> FALSE],
        Payload(value), DateOf(origin.t0))

\* C8: expiry.  A token signed when the clock read t0 and unsigned with
\* maxAge m >= 0 when the clock reads t gives the value back if
\* 0 <= t - t0 <= m, and if t - t0 > m fails with SignatureExpiredError
\* 'Signature age {t-t0} > {m} seconds' whose payload is the value without
\* timestamp and signature and whose dateSigned is t0.  The same holds for
\* the parse of a timed serializer, whose error payload parses to the
\* original value.
C8_Expiry ==
  /\ (TimedUnsignCase /\ last.maxAge.def) =>
       /\ (0 <= Elapsed /\ Elapsed <= last.maxAge.n) =>
            last.res.ok /\ last.res.val = origin.value
       /\ Elapsed > last.maxAge.n => last.res = ExpiredError(origin.value)
  /\ (TimedParseCase /\ last.maxAge.def) =>
       /\ (0 <= Elapsed /\ Elapsed <= last.maxAge.n) =>
            last.res.ok /\ last.res.val = origin.json.v
       /\ Elapsed > last.maxAge.n =>
            /\ last.res = ExpiredError(origin.value)
            /\ parsePayload(serializer, last.res.payload.v) = Ok(origin.json.v)

C8_Witness ==
  /\ TimedUnsignCase
  /\ last.maxAge = MaxAge(0)
  /\ Elapsed = 1
  /\ last.res.err = "SignatureExpiredError"
  /\ last.res.msg.age = 1
  /\ last.res.payload = Payload(origin.value)

\* C9: future-dated tokens.  When maxAge is given and the token was signed
\* at a clock reading later than the present one, unsign fails with
\* SignatureExpiredError 'Signature age {age} < 0 seconds' carrying the
\* value and the signing date, whatever maxAge is.
C9_FutureDated ==
  (TimedUnsignCase /\ last.maxAge.def /\ Elapsed < 0) =>
    last.res = Throw("SignatureExpiredError",
                     [text |-> "Signature age {age} < 0 seconds", age |-> Elapsed,
                      maxAge |-> 0, wide |-> FALSE],
                     Payload(origin.value), DateOf(origin.t0))

C9_Witness ==
  /\ TimedUnsignCase
  /\ last.maxAge = MaxAge(MaxAgeBound)
  /\ Elapsed = -1
  /\ last.res.err = "SignatureExpiredError"
  /\ last.res.msg.text = "Signature age {age} < 0 seconds"

\* C10: timestamp round trip.  For a token signed at t0 (t0 = 0 included),
\* unsign at any later clock without maxAge returns [v, Date(t0)] when
\* returnTimestamp is set and v alone when it is not; the parse of a timed
\* serializer with returnTimestamp returns [v, Date(t0)].
C10_TimestampRoundTrip ==
  /\ (TimedUnsignCase /\ ~last.maxAge.def /\ Elapsed >= 0) =>
       last.res = IF last.returnTimestamp THEN OkPair(origin.value, DateOf(origin.t0))
                  ELSE Ok(origin.value)
  /\ (TimedParseCase /\ ~last.maxAge.def /\ last.returnTimestamp /\ Elapsed >= 0) =>
       last.res = OkPair(origin.json.v, DateOf(origin.t0))

C10_Witness ==
  /\ TimedParseCase
  /\ ~last.maxAge.def
  /\ last.returnTimestamp
  /\ origin.t0 = 1
  /\ Elapsed = 2
  /\ last.res.pair
  /\ last.res.date = DateOf(1)
  /\ last.res.val = origin.json.v

\* C3: serializer round trip.  For every flavour of serializer and every
\* JSON value v, parse(stringify(v)) returns v.
C3_SerializerRoundTrip ==
  (last.op = "parse" /\ origin.kind = "stringify" /\ origin.salt = Undefined
     /\ last.salt = Undefined) =>
    last.res = Ok(origin.json.v)

C3_Witness ==
  /\ last.op = "parse"
  /\ origin.kind = "stringify"
  /\ origin.salt = Undefined
  /\ last.salt = Undefined
  /\ serializer.flavour = "URLSafeTimedSerializer"
  /\ origin.json.v = JString(<<34, 92, 10, 233>>)
  /\ last.res.ok
  /\ last.res.val = origin.json.v

\* The salt a call signs or verifies with: its salt argument, or the salt
\* of the instance when the argument is omitted.
SaltInEffect(salt) == IF salt.t = "undefined" THEN serializer.salt ELSE wantBuffer(salt)

\* C7: salt isolation.  With one secret key and the default key derivation,
\* the token of stringify(v, a) parses back to v under salt a and fails with
\* BadSignatureError under every other salt b, the default salt of the
\* instance included.
C7_SaltIsolation ==
  (last.op = "parse" /\ origin.kind = "stringify") =>
    IF SaltInEffect(last.salt) = SaltInEffect(origin.salt)
    THEN last.res = Ok(origin.json.v)
    ELSE ~last.res.ok /\ IsBadSignatureError(last.res.err)

\* C7 for salts other than the empty string.
C7_SaltIsolationNonEmpty ==
  (Str(<<>>) \notin {last.salt, origin.salt}) => C7_SaltIsolation

\* C7 outside the async TimedSerializer.parse.
C7_SaltIsolationElsewhere ==
  ~(serializer.impl = "async" /\ IsTimed(serializer.flavour)) => C7_SaltIsolation

\* The part of a token before its last separator.
SignedPart(tok, sep) == SliceTo(tok, LastIndexOf(tok, sep[1]))

\* The token in flight differs from the one that was signed.
Changed == origin.tampered # "none" /\ wantBuffer(token) # origin.pristine

\* C1: tamper detection.  Once one character of a signed token has been
\* changed, removed or appended, or its case changed, unsign / parse fails
\* with BadSignatureError or a subtype; and unsign returns a value v only
\* for a token whose signature segment is the signature of v under one of
\* the configured keys.
C1_TamperDetection ==
  /\ (Changed /\ last.op \in {"unsign", "parse"}) =>
       ~last.res.ok /\ IsBadSignatureError(last.res.err)
  /\ (last.op = "unsign" /\ signer.cls = "Signer" /\ last.res.ok) =>
       \E i \in 1..Len(signer.secretKeys) :
         SigSegment(token.v, signer.separator)
           = SignatureUnder(signer, SubSeq(signer.secretKeys, 1, i), last.res.val)

\* C1 for the signed part: whatever unsign / parse accepts has the value
\* (and timestamp) that was signed, and a signature segment that decodes to
\* the bytes of the signature that was issued.
C1_SignedPartIntegrity ==
  (Changed /\ last.op \in {"unsign", "parse"} /\ last.res.ok) =>
    /\ SignedPart(wantBuffer(token), signer.separator)
         = SignedPart(origin.pristine, signer.separator)
    /\ base64Decode(Buf(SigSegment(wantBuffer(token), signer.separator)))
         = base64Decode(Buf(SigSegment(origin.pristine, signer.separator)))

\* C1 for changes before the last separator of the token.
C1_ValueTamperDetected ==
  (Changed /\ last.op \in {"unsign", "parse"}
     /\ SignedPart(wantBuffer(token), signer.separator)
          # SignedPart(origin.pristine, signer.separator)) =>
    ~last.res.ok /\ IsBadSignatureError(last.res.err)

\* A changed token that unsign / parse accepted.
C1_AcceptedChangedToken ==
  /\ Changed
  /\ last.op \in {"unsign", "parse"}
  /\ last.res.ok

\* value <sep> timestamp, as TimestampSigner.sign joins them at clock t0
Stamped(value, sep, t0) == value \o sep \o base64Encode(Buf(intToBuffer(t0)))

\* C4: the timestamp is covered by the signature.  TimestampSigner.sign
\* returns value <sep> timestamp <sep> signature with the signature taken
\* over value <sep> timestamp; unsign returns a value only for a token whose
\* value and timestamp segments are those that were signed; and a token
\* whose timestamp segment was replaced fails with BadTimeSignatureError
\* whatever maxAge is.
C4_TimestampCovered ==
  /\ (last.op = "sign" /\ signer.cls = "TimestampSigner") =>
       /\ SignedPart(token.v, signer.separator)
            = Stamped(origin.value, signer.separator, origin.t0)
       /\ SigSegment(token.v, signer.separator)
            = getSignature(signer, Buf(Stamped(origin.value, signer.separator, origin.t0))).val
  /\ (last.op = "unsign" /\ signer.cls = "TimestampSigner" /\ origin.kind = "sign"
        /\ last.res.ok) =>
       /\ SignedPart(token.v, signer.separator)
            = Stamped(origin.value, signer.separator, origin.t0)
       /\ last.res.val = origin.value
  /\ (last.op = "unsign" /\ origin.tampered = "retime") =>
       ~last.res.ok /\ last.res.err = "BadTimeSignatureError"

C4_Witness ==
  /\ last.op = "unsign"
  /\ origin.tampered = "retime"
  /\ origin.t0 = 0
  /\ SignedPart(token.v, signer.separator)
       = Stamped(origin.value, signer.separator, MaxClock)
  /\ last.maxAge = MaxAge(MaxAgeBound)
  /\ last.res.err = "BadTimeSignatureError"

\* The parse that a recorded parseUnsafe call wrapped, made again.
ParseOfLast == parse(serializer, token, last.salt, last.maxAge, FALSE, last.at)

ParseUnsafeCase == last.op = "parseUnsafe" /\ serializer.impl = "async"

C11_WitnessAccepted ==
  ParseUnsafeCase /\ origin.kind = "stringify" /\ last.res = Unsafe(TRUE, origin.json.v)

C11_WitnessExpired ==
  LET Failed(p) == ~p.ok /\ p.err = "SignatureExpiredError"
  IN ParseUnsafeCase /\ last.res = Unsafe(FALSE, JNull) /\ Failed(ParseOfLast)

C11_WitnessOtherSalt ==
  LET Failed(p) == ~p.ok /\ p.err = "BadSignatureError"
  IN ParseUnsafeCase /\ last.res = Unsafe(FALSE, JNull) /\ Failed(ParseOfLast)

C11_WitnessPropagated ==
  ParseUnsafeCase /\ ~last.res.ok /\ last.res.err = "TypeError"

ParseLoggedCase ==
  last.op \in {"parse", "parseUnsafe"} /\ last.steps # <<>> /\ serializer.impl = "async"

\* The signature segment of the token is the signature, under the key and
\* the salt of the call, of what stands before it.
SignatureVerifies ==
  Signer_validate([makeSigner(serializer, last.salt) EXCEPT !.cls = "Signer"],
                  Buf(wantBuffer(token))).res.bool

C12_WitnessBadPayload ==
  /\ ParseLoggedCase
  /\ last.op = "parse"
  /\ SignatureVerifies
  /\ last.steps = <<"unsign", "parsePayload">>
  /\ last.res.err = "BadPayloadError"

\* TimestampSigner.unsign of a token that was not made by TimestampSigner.sign
ForgedUnsignCase ==
  last.op = "unsign" /\ origin.kind \in ForgeKinds /\ signer.cls = "TimestampSigner"

\* What Signer.unsign of the base class answers to the token.
BaseUnsign == Signer_unsign([signer EXCEPT !.cls = "Signer"], token).res

\* The value part and the timestamp segment of a signed value that holds
\* the separator.
ValuePart(signed) == SliceTo(signed, LastIndexOf(signed, Dot))
TimestampSegment(signed) == SliceFrom(signed, LastIndexOf(signed, Dot) + 1)

\* The segment is base64url of at most 8 bytes.
Decodable(segment) ==
  LET Short(decoded) == decoded.ok /\ Len(decoded.val) <= 8
  IN Short(base64Decode(Buf(segment)))

\* C13: missing timestamp.  A token whose signature verifies and whose
\* signed value holds no separator fails with BadTimeSignatureError
\* 'Missing timestamp', the whole signed value as payload and no dateSigned.
C13_MissingTimestamp ==
  (ForgedUnsignCase /\ origin.kind = "forged" /\ ~Includes(origin.value, signer.separator)) =>
    /\ ~last.res.ok
    /\ last.res.err = "BadTimeSignatureError"
    /\ last.res.msg = Msg("Missing timestamp")
    /\ last.res.payload = Payload(origin.value)
    /\ last.res.date = NoDate

C13_Witness ==
  /\ ForgedUnsignCase
  /\ origin.kind = "forged"
  /\ origin.value = <<118>>
  /\ BaseUnsign = Ok(<<118>>)
  /\ last.res.msg = Msg("Missing timestamp")
  /\ last.res.payload = Payload(<<118>>)

C14_WitnessNotBase64 ==
  /\ ForgedUnsignCase
  /\ origin.kind = "forged"
  /\ TimestampSegment(origin.value) = <<33>>
  /\ last.res.msg = Msg("Malformed timestamp")

\* C15: signature failure with a recoverable timestamp.  When the base
\* signature check fails and the timestamp segment decodes to an integer,
\* unsign fails with BadTimeSignatureError carrying the message of the
\* base signature error, the value part and the decoded signing date; an
\* integer that is no valid instant gives 'Malformed timestamp' and no date.
C15_SignatureErrorDated ==
  LET Dated(base, timestampInt, timestampDate) ==
        /\ ~last.res.ok
        /\ last.res.err = "BadTimeSignatureError"
        /\ last.res.payload = Payload(ValuePart(origin.value))
        /\ timestampDate.ok =>
             /\ last.res.msg = base.msg
             /\ last.res.date = [def |-> TRUE, sec |-> timestampInt]
        /\ ~timestampDate.ok =>
             /\ last.res.msg = Msg("Malformed timestamp")
             /\ last.res.date = NoDate
      Read(base, timestampInt) == Dated(base, timestampInt, timestampToDate(timestampInt))
  IN (ForgedUnsignCase /\ origin.kind = "forgedBadSig"
        /\ Includes(origin.value, signer.separator)
        /\ Decodable(TimestampSegment(origin.value))) =>
       Read(BaseUnsign,
            StripLeadingZeros(base64Decode(Buf(TimestampSegment(origin.value))).val))

C15_Witness ==
  /\ ForgedUnsignCase
  /\ origin.kind = "forgedBadSig"
  /\ origin.value = <<118, Dot, 65, 81>>
  /\ ~BaseUnsign.ok
  /\ BaseUnsign.err = "BadSignatureError"
  /\ last.res.err = "BadTimeSignatureError"
  /\ last.res.msg = BaseUnsign.msg
  /\ last.res.payload = Payload(<<118>>)
  /\ last.res.date = DateOf(1)

C15_WitnessNoInstant ==
  /\ ForgedUnsignCase
  /\ origin.kind = "forgedBadSig"
  /\ TimestampSegment(origin.value) = base64Encode(Buf([i \in 1..8 |-> 255]))
  /\ last.res.msg = Msg("Malformed timestamp")
  /\ last.res.date = NoDate

\* The base unsign fails on the signature.
PendingSignatureError == ~BaseUnsign.ok /\ BaseUnsign.err = "BadSignatureError"

\* The payload that the pending signature error carries ('' if none).
PendingPayload == IF BaseUnsign.payload.def THEN BaseUnsign.payload.v ELSE <<>>

\* C16: pending signature error without a timestamp separator.  When the
\* base unsign fails with BadSignatureError and the payload of that error
\* holds no separator, unsign re-raises that error, message and payload
\* unchanged, and does not report 'Missing timestamp'.
C16_PendingErrorReraised ==
  (ForgedUnsignCase /\ PendingSignatureError /\ ~Includes(PendingPayload, signer.separator)) =>
    /\ last.res = BaseUnsign
    /\ last.res.msg # Msg("Missing timestamp")

\* The same for the revision of part_012 alone.
C16_PendingErrorReraisedSync ==
  signer.impl = "sync" => C16_PendingErrorReraised

\* What the revision of src/timed.ts does in that case.
C16_MissingTimestampReported ==
  (ForgedUnsignCase /\ signer.impl = "async" /\ PendingSignatureError
     /\ ~Includes(PendingPayload, signer.separator)) =>
    /\ last.res.err = "BadTimeSignatureError"
    /\ last.res.msg = Msg("Missing timestamp")
    /\ last.res.payload = BaseUnsign.payload

\* C17: pending signature error with an undecodable timestamp.  When the
\* base signature check fails and the timestamp segment cannot be decoded
\* to an integer, unsign fails with BadTimeSignatureError carrying the
\* message of the base signature error, the value part and no dateSigned.
C17_DecodeFailureSwallowed ==
  (ForgedUnsignCase /\ PendingSignatureError /\ Includes(PendingPayload, signer.separator)
     /\ ~Decodable(TimestampSegment(PendingPayload))) =>
    /\ ~last.res.ok
    /\ last.res.err = "BadTimeSignatureError"
    /\ last.res.msg = BaseUnsign.msg
    /\ last.res.payload = Payload(ValuePart(PendingPayload))
    /\ last.res.date = NoDate

\* The same for the revision of part_012 alone.
C17_DecodeFailureSwallowedSync ==
  signer.impl = "sync" => C17_DecodeFailureSwallowed

\* What the revision of src/timed.ts does in that case.
C17_MalformedTimestampReported ==
  (ForgedUnsignCase /\ signer.impl = "async" /\ PendingSignatureError
     /\ Includes(PendingPayload, signer.separator)
     /\ ~Decodable(TimestampSegment(PendingPayload))) =>
    /\ last.res.err = "BadTimeSignatureError"
    /\ last.res.msg = Msg("Malformed timestamp")
    /\ last.res.payload = Payload(ValuePart(PendingPayload))
    /\ last.res.date = NoDate

\* The text starts with the marker '.'.
HasMarker(text) == Len(text) > 0 /\ text[1] = Dot

\* C18: URL-safe transform round trip.  For every payload b,
\* decodePayload(encodePayload(b)) = b; when the compressed form was chosen
\* the output starts with the marker '.', and when it was not the output
\* does not start with '.'.  The URL-safe serializers therefore parse
\* what they stringify, compressed or not.
C18_PayloadRoundTrip ==
  LET Chose(compressed, rest) ==
        /\ HasMarker(token.v) => rest = [ok |-> TRUE, val |-> compressed]
        /\ ~HasMarker(token.v) => rest = [ok |-> TRUE, val |-> origin.value]
      Rest(compressed) ==
        Chose(compressed,
              base64Decode(Buf(IF HasMarker(token.v) THEN Tail(token.v) ELSE token.v)))
  IN /\ (origin.kind = "payload" /\ last.op = "decodePayload") => last.res = Ok(origin.value)
     /\ (origin.kind = "stringify" /\ last.op = "parse") => last.res = Ok(origin.json.v)
     /\ (origin.kind = "payload" /\ last.op = "encodePayload") =>
          Rest(pakoCompress(origin.value))

\* A run that is compressed and comes back.
C18_Witness ==
  /\ origin.kind = "payload"
  /\ last.op = "decodePayload"
  /\ origin.value = [i \in 1..MaxRun |-> 97]
  /\ HasMarker(token.v)
  /\ last.res = Ok(origin.value)

\* A payload that begins with '.' itself, not compressed, comes back.
C18_WitnessPlain ==
  /\ origin.kind = "payload"
  /\ last.op = "decodePayload"
  /\ origin.value = <<Dot, 97>>
  /\ ~HasMarker(token.v)
  /\ last.res = Ok(origin.value)

\* C19: URL-safe compression decision.  encodePayload uses the compressed
\* bytes exactly when they are at least 2 bytes fewer than the original
\* (compressed length < original length - 1), otherwise the original
\* bytes; the marker '.' is prepended exactly when the compressed bytes
\* were used.
C19_CompressionDecision ==
  LET Decided(json, compressed) ==
        /\ Len(compressed) < Len(json) - 1 =>
             token.v = <<Dot>> \o base64Encode(Buf(compressed))
        /\ ~(Len(compressed) < Len(json) - 1) => token.v = base64Encode(Buf(json))
        /\ HasMarker(token.v) <=> Len(compressed) < Len(json) - 1
  IN (origin.kind = "payload" /\ last.op = "encodePayload") =>
       Decided(origin.value, pakoCompress(origin.value))

\* C19 as stated: the compressed bytes are used exactly when they are at
\* least 1 byte fewer (compressed length <= original length - 1).
C19_CompressionOneSmaller ==
  LET Decided(json, compressed) ==
        /\ Len(compressed) <= Len(json) - 1 =>
             token.v = <<Dot>> \o base64Encode(Buf(compressed))
        /\ ~(Len(compressed) <= Len(json) - 1) => token.v = base64Encode(Buf(json))
        /\ HasMarker(token.v) <=> Len(compressed) <= Len(json) - 1
  IN (origin.kind = "payload" /\ last.op = "encodePayload") =>
       Decided(origin.value, pakoCompress(origin.value))

\* The compressed form is exactly one byte shorter and is not used.
C19_Witness ==
  /\ origin.kind = "payload"
  /\ last.op = "encodePayload"
  /\ Len(pakoCompress(origin.value)) = Len(origin.value) - 1
  /\ token.v = base64Encode(Buf(origin.value))
  /\ ~HasMarker(token.v)

\* The compressed form is two bytes shorter and is used.
C19_WitnessUsed ==
  /\ origin.kind = "payload"
  /\ last.op = "encodePayload"
  /\ Len(pakoCompress(origin.value)) = Len(origin.value) - 2
  /\ HasMarker(token.v)

\* A repetitive value whose payload was compressed parses back.
C18_WitnessSerializer ==
  /\ origin.kind = "stringify"
  /\ last.op = "parse"
  /\ origin.json.v = JString([i \in 1..12 |-> 97])
  /\ HasMarker(token.v)
  /\ last.res = Ok(origin.json.v)

\* A-Z, a-z, 0-9, '-', '_' and '.'
URLSafeChars == (65..90) \cup (97..122) \cup (48..57) \cup {45, 95, Dot}

\* C20: URL-safe alphabet.  Every token that stringify of URLSafeSerializer
\* and URLSafeTimedSerializer (separator '.') returns is made of A-Z, a-z,
\* 0-9, '-', '_' and '.' only, whatever the value and whether or not it was
\* compressed; it holds no '=', '+' or '/'.
C20_URLSafeAlphabet ==
  (origin.kind = "stringify" /\ IsURLSafe(serializer.flavour)) =>
    \A i \in 1..Len(token.v) : token.v[i] \in URLSafeChars

\* A compressed payload, and a token that holds '-' or '_'.
C20_Witness ==
  /\ origin.kind = "stringify"
  /\ serializer.flavour = "URLSafeTimedSerializer"
  /\ last.op = "stringify"
  /\ HasMarker(token.v)
  /\ \E i \in 1..Len(token.v) : token.v[i] \in {45, 95}
  /\ Len(token.v) % 4 # 0

C20_WitnessPlain ==
  /\ origin.kind = "stringify"
  /\ serializer.flavour = "URLSafeSerializer"
  /\ last.op = "stringify"
  /\ ~HasMarker(token.v)
  /\ origin.json.v = JString(<<34, 92, 10, 233>>)

\* The characters of the base64url alphabet: letters, digits, '-', '_', '='
Base64Characters == Range(BASE64_ALPHABET)

HoldsBase64Character(separator) ==
  \E i \in 1..Len(separator) : separator[i] \in Base64Characters

\* C21: separator validation.  Constructing a Signer or TimestampSigner
\* fails with TypeError whenever the separator holds a character of the
\* base64url alphabet, for separators of any length, and no instance has a
\* separator that holds such a character.
C21_SeparatorValidation ==
  /\ (last.op = "new" /\ HoldsBase64Character(last.arg)) =>
       ~last.res.ok /\ last.res.err = "TypeError"
  /\ ~HoldsBase64Character(signer.separator)

\* What the constructors do check: a separator that is a contiguous piece
\* of the alphabet text is refused, every other separator is accepted.
C21_AlphabetPieceRefused ==
  /\ (last.op = "new" /\ Includes(BASE64_ALPHABET, last.arg)) =>
       ~last.res.ok /\ last.res.err = "TypeError"
  /\ (last.op = "new" /\ ~Includes(BASE64_ALPHABET, last.arg)) =>
       last.res.ok /\ signer.separator = last.arg
  /\ ~Includes(BASE64_ALPHABET, signer.separator)

\* Separators of one character are validated as the claim says.
C21_SingleCharacterValidated ==
  (last.op = "new" /\ Len(last.arg) = 1 /\ HoldsBase64Character(last.arg)) =>
    ~last.res.ok /\ last.res.err = "TypeError"

\* The text before the last occurrence of the whole separator.
BeforeLast(signed, sep) ==
  SubSeq(signed, 1,
         CHOOSE i \in 0..(Len(signed) - Len(sep)) :
           /\ SubSeq(signed, i + 1, i + Len(sep)) = sep
           /\ \A j \in (i + 1)..(Len(signed) - Len(sep)) :
                SubSeq(signed, j + 1, j + Len(sep)) # sep)

BaseUnsignCase == last.op = "unsign" /\ signer.cls = "Signer" /\ origin.kind # "none"

\* The token is what the base Signer of this key, salt and separator signed.
WellSigned == origin.kind \in {"sign", "forged"}

\* C22: base unsign error payloads.  Signer.unsign fails with
\* BadSignatureError carrying the full input when the input holds no
\* separator, with BadSignatureError carrying the value part (all before
\* the last separator) when the signature does not verify, and returns the
\* value part only when the signature verifies.
C22_UnsignErrorPayloads ==
  /\ (BaseUnsignCase /\ ~Includes(token.v, signer.separator)) =>
       /\ ~last.res.ok
       /\ last.res.err = "BadSignatureError"
       /\ last.res.payload = Payload(token.v)
  /\ (BaseUnsignCase /\ Includes(token.v, signer.separator) /\ ~WellSigned) =>
       /\ ~last.res.ok
       /\ last.res.err = "BadSignatureError"
       /\ last.res.payload = Payload(BeforeLast(token.v, signer.separator))
  /\ (BaseUnsignCase /\ last.res.ok) =>
       /\ WellSigned
       /\ last.res.val = BeforeLast(token.v, signer.separator)

\* The same for the revision of part_015 and separators of one character.
C22_UnsignErrorPayloadsAsync ==
  (signer.impl = "async" /\ Len(signer.separator) = 1) => C22_UnsignErrorPayloads

\* What the revision of src/signer.ts does without a separator: the error
\* has no payload.
C22_NoSeparatorNoPayloadSync ==
  (BaseUnsignCase /\ signer.impl = "sync" /\ ~Includes(token.v, signer.separator)) =>
    /\ last.res.err = "BadSignatureError"
    /\ last.res.payload = NoPayload

SignedUnsignCase == last.op = "unsign" /\ origin.kind = "sign"

\* C26: multi-byte separators.  For every separator the constructor
\* accepts, longer than one byte or repeating its first byte included,
\* unsign splits the token at the last occurrence of the whole separator
\* and unsign(sign(v)) = v, for Signer and for TimestampSigner.
C26_MultiByteSeparators ==
  SignedUnsignCase => last.res = Ok(origin.value)

\* The same for the separators in which the first byte does not occur twice.
C26_FirstByteOnce ==
  (SignedUnsignCase /\ Len(signer.separator) = 2 /\ signer.separator[2] # signer.separator[1]) =>
    last.res = Ok(origin.value)

\* What happens with the separator '..': part_015 and src/timed.ts split at
\* the last occurrence of the first byte and fail on every token;
\* src/signer.ts and part_012 split where String.split matched and fail on
\* the values that end in '.'.
C26_RepeatedByteFails ==
  (SignedUnsignCase /\ signer.separator = <<Dot, Dot>>
     /\ (signer.impl = "async" \/ Last(origin.value) = Dot)) =>
    ~last.res.ok /\ IsBadSignatureError(last.res.err)

\* The k-th of the 8 big-endian bytes of the integer with these limbs.
ByteOf(limbs, k) ==
  IF k % 2 = 1 THEN limbs[(k + 1) \div 2] \div 256 ELSE limbs[k \div 2] % 256

\* C23: integer codec.  For every integer n with 0 <= n <= 2^64 - 1,
\* intToBuffer(n) is the big-endian encoding of n without its leading zero
\* bytes (0 gives the empty sequence, a result that is not empty does not
\* start with 0 and has at most 8 bytes), and bufferToInt(intToBuffer(n)) = n.
C23_IntegerCodec ==
  /\ (origin.kind = "integer" /\ last.op = "intToBuffer") =>
       /\ Len(token.v) <= 8
       /\ Len(token.v) > 0 => token.v[1] # 0
       /\ \A k \in 1..8 :
            ByteOf(origin.value, k) =
              (IF k > 8 - Len(token.v) THEN token.v[k - (8 - Len(token.v))] ELSE 0)
       /\ origin.value = <<0, 0, 0, 0>> => token.v = <<>>
       /\ (origin.value[1] = 0 /\ origin.value[2] = 0 /\ origin.value[3] < 32768) =>
            token.v = intToBuffer(origin.value[3] * 65536 + origin.value[4])
  /\ (origin.kind = "integer" /\ last.op = "bufferToInt") => last.res = Ok(origin.value)

\* 2^64 - 1 comes back from its 8 bytes.
C23_Witness ==
  /\ origin.kind = "integer"
  /\ last.op = "bufferToInt"
  /\ origin.value = <<65535, 65535, 65535, 65535>>
  /\ token.v = [k \in 1..8 |-> 255]
  /\ last.res = Ok(origin.value)

\* 0 is the empty sequence, and 2^48 has 7 bytes with zeros inside.
C23_WitnessZero ==
  origin.kind = "integer" /\ last.op = "bufferToInt" /\ token.v = <<>>
    /\ last.res = Ok(<<0, 0, 0, 0>>)

C23_WitnessInnerZeros ==
  origin.kind = "integer" /\ last.op = "intToBuffer" /\ token.v = <<1, 0, 0, 0, 0, 0, 0>>

CompareCase == last.op = "algorithm.verifySignature"

\* C25: timing-safe verification.  SigningAlgorithm.verifySignature
\* compares the supplied signature with the recomputed one in constant
\* time: for signatures of the length of the expected one the number of
\* bytes compared is that length wherever the first difference is; and it
\* returns false, and does not throw, when the expected signature cannot
\* be computed.
C25_TimingSafeVerification ==
  /\ (CompareCase /\ signer.algorithm.cls # "SigningAlgorithm"
        /\ Len(token.v) = Len(origin.pristine)) =>
       last.work = Len(origin.pristine)
  /\ (CompareCase /\ signer.algorithm.cls = "SigningAlgorithm") => last.res = OkBool(FALSE)
  /\ CompareCase => last.res.ok

\* The same for the revision of src/signer.ts alone.
C25_TimingSafeVerificationSync ==
  signer.impl = "sync" => C25_TimingSafeVerification

\* The answer is right, and nothing is thrown, in both revisions.
C25_ComparisonResult ==
  CompareCase =>
    /\ last.res.ok
    /\ last.res.bool = (signer.algorithm.cls # "SigningAlgorithm" /\ token.v = origin.pristine)

\* What the revision of part_015 does: the work is the position of the
\* first byte that differs.
C25_WorkFollowsFirstDifference ==
  (CompareCase /\ signer.impl = "async" /\ origin.kind = "first"
     /\ signer.algorithm.cls # "SigningAlgorithm" /\ Len(origin.pristine) > 1) =>
    last.work = 1

TimedSameSaltCase ==
  /\ last.op = "parse"
  /\ origin.kind = "stringify"
  /\ IsTimed(serializer.flavour)
  /\ serializer.impl = "async"
  /\ last.salt = origin.salt

\* C27: salt override consistency in TimedSerializer.  For every salt
\* override s, the empty string included, parse(token, s) builds its signer
\* with the salt stringify(v, s) signed with, so parse(stringify(v, s), s) = v.
C27_SaltOverrideConsistent ==
  TimedSameSaltCase => last.res = Ok(origin.json.v)

\* The same for every override but the empty string.
C27_SaltOverrideConsistentNonEmpty ==
  (TimedSameSaltCase /\ origin.salt # Str(<<>>)) => last.res = Ok(origin.json.v)

\* What happens with the empty string: parse verifies under the default
\* salt of the instance and rejects the token.
C27_EmptySaltRejected ==
  (TimedSameSaltCase /\ origin.salt = Str(<<>>)) =>
    /\ ~last.res.ok
    /\ last.res.err = "BadTimeSignatureError"

OtherContextCase == last.op = "otherUnsign" /\ origin.kind = "sign"

\* The signer that made the call recorded in last.
OtherSigner == [constructed EXCEPT !.secretKeys = <<last.by.v>>, !.salt = last.salt.v]

\* What the mode derives the key from.
DerivationInput(s) ==
  CASE s.keyDerivation = "concat" -> <<s.salt \o Last(s.secretKeys)>>
    [] s.keyDerivation = "django-concat" -> <<s.salt \o txtSigner \o Last(s.secretKeys)>>
    [] s.keyDerivation = "hmac" -> <<Last(s.secretKeys), s.salt>>
    [] s.keyDerivation = "none" -> <<Last(s.secretKeys)>>

SameContext(s, o) == s.salt = o.salt /\ Last(s.secretKeys) = Last(o.secretKeys)

\* C28 as stated: in each mode two signers that differ in salt or in
\* secret derive different keys and neither accepts a token of the other.
C28_ContextsSeparated ==
  LET Separate(s, o) ==
        ~SameContext(s, o) =>
          /\ deriveKey(s, Undefined) # deriveKey(o, Undefined)
          /\ ~last.res.ok /\ last.res.err = "BadSignatureError"
  IN OtherContextCase => Separate(constructed, OtherSigner)

\* C28: key derivation separates contexts.  With hash and HMAC injective,
\* the derived key is an injective function of what the mode derives it
\* from: salt + secret (Concat), salt + 'signer' + secret (DjangoConcat),
\* the pair of secret and salt (HMAC), the secret alone (None).  Two
\* signers derive the same key, and accept each other's tokens, exactly
\* when these inputs are equal; in HMAC mode that is never the case for
\* signers that differ in salt or in secret.
C28_DerivationInjective ==
  LET Separate(s, o) ==
        /\ (deriveKey(s, Undefined) = deriveKey(o, Undefined))
             <=> (DerivationInput(s) = DerivationInput(o))
        /\ last.res.ok <=> (DerivationInput(s) = DerivationInput(o))
        /\ last.res.ok => last.res = Ok(origin.value)
        /\ ~last.res.ok => last.res.err = "BadSignatureError"
        /\ (s.keyDerivation = "hmac" /\ ~SameContext(s, o)) => ~last.res.ok
  IN OtherContextCase => Separate(constructed, OtherSigner)

\* HMAC mode: a signer that differs in the salt alone rejects the token.
C28_Witness ==
  /\ OtherContextCase
  /\ constructed.keyDerivation = "hmac"
  /\ constructed.salt = <<97>>
  /\ last.salt.v = <<97, 98>>
  /\ last.by.v = Last(constructed.secretKeys)
  /\ ~last.res.ok
  /\ last.res.err = "BadSignatureError"

\* Concat mode: salt 'a' with secret 'bc' and salt 'ab' with secret 'c'
\* give the same key, and the token is accepted.
C28_WitnessConcat ==
  /\ OtherContextCase
  /\ constructed.keyDerivation = "concat"
  /\ constructed.salt = <<97>> /\ Last(constructed.secretKeys) = <<98, 99>>
  /\ last.salt.v = <<97, 98>> /\ last.by.v = <<99>>
  /\ last.res.ok

\* None mode: the salt has no part in the key.
C28_WitnessNone ==
  /\ OtherContextCase
  /\ constructed.keyDerivation = "none"
  /\ constructed.salt # last.salt.v
  /\ last.by.v = Last(constructed.secretKeys)
  /\ last.res.ok

C28_WitnessDjango ==
  /\ OtherContextCase
  /\ constructed.keyDerivation = "django-concat"
  /\ ~SameContext(constructed, OtherSigner)
  /\ last.res.ok

\* What the call of the frame returns when it is the only call made on the
\* instance as constructed, the clock reading f.at.
RunAlone(f) ==
  CASE f.op = "sign" -> SignWith(constructed, f.arg, f.at)
    [] f.op = "unsign" ->
         IF constructed.cls = "TimestampSigner"
         THEN TimestampSigner_unsign(constructed, f.arg, f.maxAge, f.returnTimestamp, f.at).res
         ELSE Signer_unsign(constructed, f.arg).res
    [] f.op = "validate" ->
         IF constructed.cls = "TimestampSigner"
         THEN TimestampSigner_validate(constructed, f.arg, f.maxAge, f.at).res
         ELSE Signer_validate(constructed, f.arg).res
    [] f.op = "stringify" -> Serializer_stringify(serializer, f.object, f.salt, f.at)
    [] f.op = "parse" -> Serializer_parse(serializer, f.arg, f.salt)

\* C24: concurrent use.  Whatever the interleaving of the steps of two
\* sign / unsign / validate / stringify / parse calls in flight on one
\* instance, each suspended at its digest and HMAC awaits, a call that has
\* finished has the result or the error it has when run alone with the same
\* clock reading, and the fields of the instance are at every moment those
\* it was constructed with.
C24_ConcurrentUse ==
  /\ signer = constructed
  /\ \A c \in DOMAIN calls : calls[c].pc = "done" => calls[c].res = RunAlone(calls[c])

\* An unsign that was suspended while another call ran has returned the
\* value, and a sign is still suspended.
C24_Witness ==
  \E c \in DOMAIN calls, d \in DOMAIN calls :
    /\ c # d
    /\ calls[c].pc = "done" /\ calls[c].met
    /\ calls[c].op = "unsign" /\ calls[c].res.ok
    /\ calls[d].op = "sign" /\ calls[d].pc = "algorithm" /\ calls[d].met

\* The clock moved while the call was suspended: a timed unsign that began
\* at the second of signing has found the token expired.
C24_WitnessExpired ==
  \E c \in DOMAIN calls :
    /\ calls[c].pc = "done" /\ calls[c].met
    /\ calls[c].op = "unsign" /\ ~calls[c].res.ok
    /\ calls[c].res.err = "SignatureExpiredError"
    /\ calls[c].at = 1

\* Both calls are in the loop over two keys, one at each key.
C24_WitnessKeys ==
  /\ DOMAIN calls = CallIds
  /\ Len(signer.secretKeys) = 2
  /\ calls[1].op = "validate" /\ calls[1].pc = "deriveKey" /\ calls[1].i = 2
  /\ calls[2].op = "unsign" /\ calls[2].pc = "algorithm" /\ calls[2].i = 1

\* A parse under another salt was rejected while a stringify was in flight.
C24_WitnessSerializer ==
  \E c \in DOMAIN calls, d \in DOMAIN calls :
    /\ calls[c].pc = "done" /\ calls[c].met
    /\ calls[c].op = "parse" /\ ~calls[c].res.ok
    /\ calls[d].op = "stringify" /\ calls[d].pc \in Suspended

UnsignAgainCase == last.op = "unsign" /\ origin.kind \in {"sign", "forged"}

\* C29: expiry is permanent under a non-decreasing clock.  Once unsign of
\* the token with a maxAge has failed with SignatureExpiredError because
\* age > maxAge, every later unsign of that token with that maxAge fails
\* with SignatureExpiredError; and an unsign without maxAge is never
\* rejected for the age of the token, whatever the clock reads: it returns
\* the value.
C29_ExpiryPermanent ==
  UnsignAgainCase =>
    /\ (\E e \in calls : e.maxAge = last.maxAge /\ e.at <= last.at) =>
         (~last.res.ok /\ last.res.err = "SignatureExpiredError")
    /\ ~last.maxAge.def => (last.res.ok /\ last.res.val = <<118>>)

\* The token was found too old under maxAge 0 at an earlier second, and is
\* found too old again.
C29_Witness ==
  /\ UnsignAgainCase
  /\ origin.kind = "sign"
  /\ last.maxAge = MaxAge(0)
  /\ \E e \in calls : e.maxAge = MaxAge(0) /\ e.at < last.at
  /\ TooOld(last.res)

\* Without maxAge the token is returned although it is too old under every
\* maxAge of the model.
C29_WitnessNoMaxAge ==
  /\ UnsignAgainCase
  /\ last.maxAge = NoMaxAge
  /\ last.res.ok
  /\ \A n \in 0..MaxAgeBound : \E e \in calls : e.maxAge = MaxAge(n) /\ e.at <= last.at

\* Without maxAge a token stamped ahead of the clock is returned.
C29_WitnessAhead ==
  /\ UnsignAgainCase
  /\ origin.kind = "forged"
  /\ last.maxAge = NoMaxAge
  /\ last.at < 2
  /\ last.res.ok

\* A rejection for a negative age is not permanent: it is not one of
\* age > maxAge, and the token is accepted once the clock has caught up.
C29_WitnessNegativeAge ==
  /\ UnsignAgainCase
  /\ origin.kind = "forged"
  /\ last.maxAge = MaxAge(0)
  /\ last.at < 2
  /\ ~last.res.ok
  /\ last.res.err = "SignatureExpiredError"
  /\ ~TooOld(last.res)
  /\ calls = {}

\* The timestamp segment of the forged value is an integer of which no Date
\* can be made.
NoInstant ==
  LET Late(timestampInt) == timestampInt.ok /\ ~timestampToDate(timestampInt.val).ok
  IN /\ Includes(origin.value, signer.separator)
     /\ Late(ReadTimestamp(TimestampSegment(origin.value)))

\* C30: typed failures only.  For every input and every maxAge and
\* returnTimestamp, TimestampSigner.unsign returns or fails with
\* BadSignatureError, BadTimeSignatureError or SignatureExpiredError; a token
\* whose signature verifies and whose timestamp integer maps to no valid
\* instant fails with BadTimeSignatureError.
C30_TypedFailuresOnly ==
  ForgedUnsignCase =>
    /\ last.res.ok \/ IsBadSignatureError(last.res.err)
    /\ (BaseUnsign.ok /\ NoInstant) => (~last.res.ok /\ last.res.err = "BadTimeSignatureError")

\* What the code does: the only untyped failure is the TypeError 'Invalid
\* timestamp' of timestampToDate, for a token whose signature verifies and
\* whose timestamp maps to no instant, when a maxAge is given or the
\* timestamp is asked for; without both the value is returned.
C30_InvalidTimestampEscapes ==
  LET Escapes == BaseUnsign.ok /\ NoInstant /\ (last.maxAge.def \/ last.returnTimestamp)
  IN ForgedUnsignCase =>
       /\ Escapes => (~last.res.ok /\ last.res.err = "TypeError"
                      /\ last.res.msg = Msg("Invalid timestamp"))
       /\ ~Escapes => (last.res.ok \/ IsBadSignatureError(last.res.err))
       /\ (BaseUnsign.ok /\ NoInstant /\ ~last.maxAge.def /\ ~last.returnTimestamp)
            => last.res = Ok(ValuePart(origin.value))

C30_WitnessTypeError ==
  /\ ForgedUnsignCase
  /\ signer.impl = "async"
  /\ origin.kind = "forged"
  /\ NoInstant
  /\ last.maxAge = MaxAge(0)
  /\ ~last.res.ok
  /\ last.res.err = "TypeError"

====
